---- MODULE Spec2Model ----
(***************************************************************************)
(* StreetSafe client: the Home page (navigation, safety monitor, SOS) and  *)
(* the Guardian page, as an event-driven state machine.  Every handler,    *)
(* timer callback and network completion is one action; a value captured   *)
(* by a closure is stored in the record of the timer or request that       *)
(* carries the closure.                                                    *)
(*                                                                         *)
(* The repository holds two builds of the Home page:                       *)
(*   "part_002" : src/unnamed/part_002 (route + safety monitor, SOS token  *)
(*                synthesized on the client)                               *)
(*   "Home"     : src/frontend/src/pages/Home.tsx (SOS backed by the       *)
(*                emergency service, broadcast interval)                   *)
(* The variable variant says which build is running.                       *)
(***************************************************************************)
EXTENDS Integers, Sequences, FiniteSets, Bags, TLC

\* ---------------------------------------------------------------- bounds
MaxCoord == 2          \* places the user can choose are 1..MaxCoord
MaxFix == 1            \* positions the geoposition source reports are 1..MaxFix
MaxIntervals == 2      \* setInterval calls per run
MaxTicks == 2          \* monitor interval firings per run
MaxInFlight == 2       \* outstanding route, activation and status requests
MaxPending == 1        \* outstanding deactivations, position reads and pushes
MaxClock == 2          \* readings of Date.now() are 1..MaxClock
MaxActivations == 2    \* SOS activations per run
MaxPresses == 4        \* value the spacebar press counter can reach
MaxSegments == 3       \* road segments of a route are 1..MaxSegments
MaxStar == 1           \* stars that are chosen are 1..MaxStar (of 5)
MaxBatches == 2        \* journey rating submissions per run

\* ------------------------------------------------------------ value sets
NoLoc == 0             \* Coordinate | null: null
NoInterval == 0        \* a ref holding null; interval ids are positive
NULL == "null"         \* string | null: null
NoSegment == 0         \* number | null: null
\* No reset of a rated journey is pending.
NoJourney ==
  [start |-> NoLoc, end |-> NoLoc, route |-> <<>>, segments |-> <<>>]
Coords == 1..MaxCoord
Fixes == 1..MaxFix

\* Time of the keyboard trigger is counted in ticks of 500 ms: the timeout of
\* handleSpacebarPress, 2000 ms, is SpacebarWindow ticks.
SpacebarWindow == 4
NoTimer == -1          \* a timeout that is not pending

\* Option of a record: <<>> is null, <<x>> is x.
None == <<>>
Some(x) == <<x>>

\* AlertResponse as the safety-check service may return it.
AlertResponses == [alert_type : {"", "construction"}, action_required : BOOLEAN]

\* Outstanding calls of one kind form a bag: they complete in any order, and
\* two calls with the same arguments are two calls.
Add(B, q) == B (+) SetToBag({q})
Remove(B, q) == B (-) SetToBag({q})
Count(B) == BagCardinality(B)
Pending(B) == BagToSet(B)

\* ------------------------------------------------- requests and closures
\* Every route_coords the routing service may return.
RouteCoords == {<<>>} \cup {<<a>> : a \in Coords} \cup (Coords \X Coords)

\* The token the emergency service returns for its n-th activation: an opaque
\* non-empty string, fresh for every activation.
ServerToken(n) == "tok_" \o ToString(n)

\* The token part_002 synthesizes: 'sos_' + Date.now().
ClientToken(now) == "sos_" \o ToString(now)

ServerTokens == {ServerToken(n) : n \in 1..MaxActivations}

\* Every segment list a route may carry: segment ids without repetition.
SegmentLists ==
  {sq \in UNION {[1..n -> 1..MaxSegments] : n \in 0..MaxSegments} :
     \A i, j \in DOMAIN sq : i # j => sq[i] # sq[j]}
\* A running handleSubmitJourneyRating call: the journeySegments and
\* overallRating of its closure, and the index of the segment its loop is at
\* (past the last one while it awaits getSafetyHeatmap).
RatingBatches ==
  [segments : SegmentLists, rating : 1..MaxStar, next : 1..(MaxSegments + 1)]

\* calculateRoute call, with the state its continuation's closure holds.
RouteRequests ==
  [start : Coords, end : Coords, currentLocation : {NoLoc} \cup Fixes]
\* Monitor interval, with the arguments its callback's closure holds.
MonitorIntervals ==
  [id : 1..MaxIntervals, routeCoords : RouteCoords,
   currentLocation : {NoLoc} \cup Fixes]
\* checkSafetyStatus call.
SafetyChecks == [current : Fixes, planned_route_coords : RouteCoords]
\* activateSOS call.
ActivateRequests == [current : Fixes]
\* Broadcast interval, with the token its callback's closure holds.
SosIntervals == [id : 1..MaxIntervals, token : ServerTokens]
\* updateLocation call.
LocationUpdates == [token : ServerTokens, lat : Fixes]
\* getGuardianStatus(token) call: the answer on its way back, and whether the
\* call was made after the owner's deactivation of the token had completed.
Polls ==
  [token : ServerTokens, answer : {"pending", "live", "ended", "error"},
   fresh : BOOLEAN]

VARIABLES
  variant,                \* which build runs
  mounted,                \* Home is mounted
  currentLocation,        \* useState<Coordinate | null>
  nextIntervalId,         \* the id the next setInterval returns
  \* ---- mount effects
  backendConnected,       \* useState<boolean | null>: "null" | "true" | "false"
  healthPending,          \* the mount-time healthCheck() is outstanding
  geoPending,             \* the mount-time getCurrentPosition is outstanding
  \* ---- route acquisition
  start, end,             \* useState<Coordinate | null>
  route,                  \* useState<Coordinate[]>
  routeInfo,              \* useState<{distance, mode} | null>: Option
  loading,                \* useState(false)
  error,                  \* useState<string | null>
  routeRequests,          \* outstanding calculateRoute calls, with closure
  \* ---- voice announcer
  speechQueue,            \* window.speechSynthesis: pending utterances
  navigationStartedRef,   \* useRef<boolean>(false)
  \* ---- journey rating (Home.tsx)
  journeySegments,        \* useState<RouteSegment[]>: their segment_id
  journeyActive,          \* useState(false)
  showJourneyRating,      \* useState(false)
  overallRating,          \* useState(0)
  ratingLoading,          \* useState(false)
  ratingSuccess,          \* useState<string | null>: a message is shown
  ratingBatches,          \* running handleSubmitJourneyRating calls
  heatmapRefreshes,       \* setHeatmapData calls after a rating batch
  ratingResets,           \* pending 3000 ms timeouts that reset the journey
  errorTimers,            \* pending 3000 ms timeouts that clear the error
  batchesStarted,         \* handleSubmitJourneyRating calls so far
  batchSegments,          \* journeySegments in the closure of the last call
  feedbackIssued,         \* segments the last call has called submitFeedback for
  feedbackSucceeded,      \* segments whose submitFeedback has resolved in it
  batchResult,            \* how the last call ended
  answerSegments,         \* segments of the last route answer: Option
  ratedJourney,           \* endpoints and route the pending reset was set for
  \* ---- segment rating (Home.tsx)
  selectedSegmentId,      \* useState<number | null>
  selectedRating,         \* useState(0)
  segmentRatings,         \* running handleSubmitRating calls
  formResets,             \* pending 2000 ms timeouts that reset the rating form
  \* ---- safety monitor
  alertResponse,          \* useState<AlertResponse | null>: Option
  lastCheckAnswer,        \* answer of the checkSafetyStatus call settled last: Option
  monitoringIntervalRef,  \* useRef: id of the monitor interval or null
  monitorIntervals,       \* live monitor intervals, each with its closure
  monitorTicks,           \* monitor interval firings so far
  safetyChecks,           \* outstanding checkSafetyStatus calls
  \* ---- SOS channel
  sosActive,              \* useState(false)
  sosToken,               \* useState<string | null>
  sosIntervalRef,         \* useRef: id of the broadcast interval or null
  sosIntervals,           \* live broadcast intervals, each with its closure
  activateRequests,       \* outstanding activateSOS calls
  deactivateRequests,     \* outstanding deactivateSOS calls (their token)
  geoRequests,            \* getCurrentPosition calls of broadcast ticks
  locationUpdates,        \* outstanding updateLocation calls
  clock,                  \* the value Date.now() returns
  issuedTokens,           \* every token an activation produced, in order
  serverLive,             \* emergency service: tokens whose session is live
  serverEnded,            \* emergency service: tokens whose session ended
  deactivatedTokens,      \* tokens whose handleDeactivateSOS has completed
  distressMessages,       \* window.open of the WhatsApp link: the positions sent
  pushFailed,             \* an updateLocation call has been rejected
  locationAlertShown,     \* alert('Unable to get your location...') was shown
  activationAlertShown,   \* alert('Failed to activate SOS') is on the screen;
                          \* it is modal, so a later step of the page finds
                          \* it dismissed
  \* ---- keyboard trigger (part_002)
  spacebarPresses,        \* useState(0)
  spacebarTimer,          \* ticks until the timeout of spacebarTimeoutRef fires
  listenerLocation,       \* currentLocation in the closure of the key listener
  firstPressAge,          \* ticks since the press that made the counter 1
  \* ---- Guardian page
  gMounted,               \* the Guardian screen is open
  gToken,                 \* useParams: the token of the URL
  gStatus,                \* useState<GuardianStatus | null>: its status field
  gError,                 \* useState<string | null>
  gLoading,               \* useState(true)
  gIntervals,             \* live poll intervals: the token of their closure
  gPolls,                 \* outstanding getGuardianStatus calls
  gFreshAnswered,         \* a poll made after deactivation brought a status
  gHealed                 \* a successful poll has replaced a displayed error

mountVars == <<backendConnected, healthPending, geoPending>>
endpointVars == <<start, end>>
routeVars == <<route, routeInfo, loading, error, routeRequests>>
monitorVars == <<alertResponse, lastCheckAnswer, monitoringIntervalRef,
                 monitorIntervals,
                 monitorTicks, safetyChecks>>
sosStateVars == <<sosActive, sosToken, sosIntervalRef, sosIntervals>>
sosNetVars == <<activateRequests, deactivateRequests, geoRequests,
                locationUpdates>>
serverVars == <<clock, issuedTokens, serverLive, serverEnded,
                deactivatedTokens>>
keyVars == <<spacebarPresses, spacebarTimer, listenerLocation, firstPressAge>>
sosAuxVars == <<distressMessages, pushFailed, locationAlertShown, keyVars>>
sosVars == <<sosStateVars, sosNetVars, serverVars, sosAuxVars>>
guardianVars == <<gMounted, gToken, gStatus, gError, gLoading, gIntervals,
                  gPolls, gFreshAnswered, gHealed>>
ratingVars == <<journeySegments, journeyActive, showJourneyRating,
                overallRating, ratingLoading, ratingSuccess, ratingBatches,
                heatmapRefreshes, ratingResets, errorTimers, batchesStarted,
                batchSegments, feedbackIssued, feedbackSucceeded, batchResult,
                answerSegments, ratedJourney>>
voiceVars == <<speechQueue, navigationStartedRef>>
segmentVars == <<selectedSegmentId, selectedRating, segmentRatings,
                 formResets>>
navVars == <<mountVars, endpointVars, routeVars, monitorVars, ratingVars,
            voiceVars, segmentVars>>

vars == <<variant, mounted, currentLocation, nextIntervalId, navVars, sosVars,
          activationAlertShown, guardianVars>>

\* A state setter of an unmounted component is a no-op.
SetState(cur, new) == IF mounted THEN new ELSE cur

\* ------------------------------------------------------------------ Init
InitCommon ==
  /\ mounted = TRUE
  /\ currentLocation = NoLoc
  /\ nextIntervalId = 1
  /\ backendConnected = NULL
  /\ healthPending = TRUE
  /\ geoPending = TRUE
  /\ start = NoLoc
  /\ end = NoLoc
  /\ route = <<>>
  /\ routeInfo = None
  /\ loading = FALSE
  /\ error = NULL
  /\ routeRequests = EmptyBag
  /\ speechQueue = <<>>
  /\ navigationStartedRef = FALSE
  /\ journeySegments = <<>>
  /\ journeyActive = FALSE
  /\ showJourneyRating = FALSE
  /\ overallRating = 0
  /\ ratingLoading = FALSE
  /\ ratingSuccess = FALSE
  /\ ratingBatches = EmptyBag
  /\ heatmapRefreshes = 0
  /\ ratingResets = 0
  /\ errorTimers = 0
  /\ batchesStarted = 0
  /\ batchSegments = <<>>
  /\ feedbackIssued = <<>>
  /\ feedbackSucceeded = <<>>
  /\ batchResult = "none"
  /\ answerSegments = None
  /\ ratedJourney = NoJourney
  /\ selectedSegmentId = NoSegment
  /\ selectedRating = 0
  /\ segmentRatings = EmptyBag
  /\ formResets = 0
  /\ alertResponse = None
  /\ lastCheckAnswer = None
  /\ monitoringIntervalRef = NoInterval
  /\ monitorIntervals = {}
  /\ monitorTicks = 0
  /\ safetyChecks = EmptyBag
  /\ sosActive = FALSE
  /\ sosToken = NULL
  /\ sosIntervalRef = NoInterval
  /\ sosIntervals = {}
  /\ activateRequests = EmptyBag
  /\ deactivateRequests = EmptyBag
  /\ geoRequests = EmptyBag
  /\ locationUpdates = EmptyBag
  /\ clock = 1
  /\ issuedTokens = <<>>
  /\ serverLive = {}
  /\ serverEnded = {}
  /\ deactivatedTokens = {}
  /\ distressMessages = <<>>
  /\ pushFailed = FALSE
  /\ locationAlertShown = FALSE
  /\ activationAlertShown = FALSE
  /\ spacebarPresses = 0
  /\ spacebarTimer = NoTimer
  /\ listenerLocation = NoLoc
  /\ firstPressAge = 0
  /\ gMounted = FALSE
  /\ gToken = NULL
  /\ gStatus = NULL
  /\ gError = NULL
  /\ gLoading = TRUE
  /\ gIntervals = {}
  /\ gPolls = EmptyBag
  /\ gFreshAnswered = FALSE
  /\ gHealed = FALSE

InitLegacy == variant = "part_002" /\ InitCommon
InitHome == variant = "Home" /\ InitCommon

\* --------------------------------------------------------- mount effects
\* healthCheck() resolved: setBackendConnected(true).
HealthCheckResolve ==
  /\ healthPending
  /\ healthPending' = FALSE
  /\ backendConnected' = SetState(backendConnected, "true")
  /\ activationAlertShown' = FALSE
  /\ UNCHANGED <<variant, segmentVars, voiceVars,
                 mounted, currentLocation, nextIntervalId, geoPending,
                 endpointVars, routeVars, monitorVars, sosVars, ratingVars,
                 guardianVars>>

\* healthCheck() rejected: setBackendConnected(false), setError(...).
HealthCheckReject ==
  /\ healthPending
  /\ healthPending' = FALSE
  /\ backendConnected' = SetState(backendConnected, "false")
  /\ error' = SetState(error, "Backend server is not reachable")
  /\ activationAlertShown' = FALSE
  /\ UNCHANGED <<variant, segmentVars, voiceVars,
                 mounted, currentLocation, nextIntervalId, geoPending,
                 endpointVars, route, routeInfo, loading, routeRequests,
                 monitorVars, sosVars, ratingVars,
                 guardianVars>>

\* The success callback of the mount-time getCurrentPosition.  In part_002 the
\* callback also sets start: its closure holds the start of the first render,
\* null, so !start is true whatever start is now.
GeolocationSuccess(c) ==
  /\ geoPending
  /\ geoPending' = FALSE
  /\ currentLocation' = SetState(currentLocation, c)
  /\ start' = IF variant = "part_002" THEN SetState(start, c) ELSE start
  /\ activationAlertShown' = FALSE
  /\ UNCHANGED <<variant, segmentVars,
                 voiceVars, mounted, nextIntervalId, backendConnected,
                 healthPending, end, routeVars, monitorVars, sosVars,
                 ratingVars,
                 guardianVars>>

\* The error callback of the mount-time getCurrentPosition: console.error only.
GeolocationError ==
  /\ geoPending
  /\ geoPending' = FALSE
  /\ activationAlertShown' = FALSE
  /\ UNCHANGED <<variant, segmentVars,
                 voiceVars, mounted, currentLocation, nextIntervalId,
                 backendConnected, healthPending, endpointVars, routeVars,
                 monitorVars, sosVars, ratingVars,
                 guardianVars>>

\* --------------------------------------------------------- route points
\* A start suggestion or search result is chosen: setStart.
SetStart(c) ==
  /\ mounted
  /\ start # c
  /\ start' = c
  /\ activationAlertShown' = FALSE
  /\ UNCHANGED <<variant, segmentVars, voiceVars,
                 mounted, currentLocation, nextIntervalId, mountVars,
                 end, routeVars, monitorVars, sosVars, ratingVars,
                 guardianVars>>

\* An end suggestion or search result is chosen: setEnd.
SetEnd(c) ==
  /\ mounted
  /\ end # c
  /\ end' = c
  /\ activationAlertShown' = FALSE
  /\ UNCHANGED <<variant, segmentVars, voiceVars,
                 mounted, currentLocation, nextIntervalId, mountVars,
                 start, routeVars, monitorVars, sosVars, ratingVars,
                 guardianVars>>

\* ------------------------------------------------------ route acquisition
\* The "Calculate Route" button with a disabled condition that leaves the
\* health probe out.
CalculateRouteEnabledUnprobed ==
  ~loading /\ start # NoLoc /\ end # NoLoc

\* The "Calculate Route" button is enabled.
CalculateRouteEnabled ==
  ~loading /\ start # NoLoc /\ end # NoLoc /\ backendConnected # "false"

\* What the routing service may answer to a request: no coordinates, a single
\* waypoint, or a path from the requested start to the requested end.
RouteCoordsFor(req) == {<<>>, <<req.start>>, <<req.start, req.end>>}

\* handleCalculateRoute up to its await: setLoading(true), setError(null) and
\* the calculateRoute call.  The continuation runs in the closure of this
\* render, so the request carries the currentLocation the closure holds.
HandleCalculateRoute ==
  /\ mounted
  /\ variant = "part_002"
  /\ CalculateRouteEnabled
  /\ Count(routeRequests) < MaxInFlight
  /\ loading' = TRUE
  /\ error' = NULL
  /\ routeRequests' = Add(routeRequests,
       [start |-> start, end |-> end, currentLocation |-> currentLocation])
  /\ activationAlertShown' = FALSE
  /\ UNCHANGED <<variant, segmentVars, voiceVars,
                 mounted, currentLocation, nextIntervalId, mountVars,
                 endpointVars, route, routeInfo, monitorVars, sosVars,
                 ratingVars,
                 guardianVars>>

\* startMonitoring without its clearInterval: the new interval is created
\* and stored next to the one the ref held.
StartMonitoringKeepsPrevious(routeCoords, loc) ==
  /\ nextIntervalId <= MaxIntervals
  /\ monitorIntervals' =
       monitorIntervals
         \cup {[id |-> nextIntervalId, routeCoords |-> routeCoords,
                currentLocation |-> loc]}
  /\ monitoringIntervalRef' = nextIntervalId
  /\ nextIntervalId' = nextIntervalId + 1

\* startMonitoring(routeCoords) called from a closure whose currentLocation is
\* loc: clear the interval of the ref, create a new one and store it.
StartMonitoring(routeCoords, loc) ==
  /\ nextIntervalId <= MaxIntervals
  /\ monitorIntervals' =
       {iv \in monitorIntervals : iv.id # monitoringIntervalRef}
         \cup {[id |-> nextIntervalId, routeCoords |-> routeCoords,
                currentLocation |-> loc]}
  /\ monitoringIntervalRef' = nextIntervalId
  /\ nextIntervalId' = nextIntervalId + 1

\* speak(text) of the navigation numbered id: a new utterance is handed to
\* window.speechSynthesis.speak, which appends it to the queue of the engine.
Speak(queue, text, id) == Append(queue, [text |-> text, id |-> id])

\* The messages startNavigation builds for routeCoords: the summary, the
\* heading of the first segment when the route has two waypoints, and the
\* closing prompt.
NavigationMessages(routeCoords) ==
  <<"Starting navigation">>
    \o (IF Len(routeCoords) >= 2 THEN <<"Head on the first segment">>
                                  ELSE <<>>)
    \o <<"Navigation voice prompts are active">>

RECURSIVE SpeakAll(_, _, _)
\* messages.forEach((text) => speak(text)).
SpeakAll(queue, messages, id) ==
  IF messages = <<>> THEN queue
  ELSE SpeakAll(Speak(queue, Head(messages), id), Tail(messages), id)

\* startNavigation(routeCoords): return for an empty route; when
\* navigationStartedRef is set, window.speechSynthesis.cancel() empties the
\* queue and stops the utterance being spoken; then the ref is set and the
\* messages are spoken.
StartNavigation(routeCoords) ==
  IF Len(routeCoords) = 0
    THEN UNCHANGED voiceVars
    ELSE /\ navigationStartedRef' = TRUE
         /\ speechQueue' =
              SpeakAll(IF navigationStartedRef THEN <<>> ELSE speechQueue,
                       NavigationMessages(routeCoords), nextIntervalId)

\* The speech engine finishes the utterance it is speaking and goes on to
\* the next one of its queue.
UtteranceEnds ==
  /\ speechQueue # <<>>
  /\ speechQueue' = Tail(speechQueue)
  /\ UNCHANGED activationAlertShown
  /\ UNCHANGED <<variant, segmentVars,
                 mounted, currentLocation, nextIntervalId, mountVars,
                 endpointVars, routeVars, monitorVars, ratingVars,
                 navigationStartedRef, sosVars, guardianVars>>

\* The catch and finally blocks of handleCalculateRoute; the catch also
\* resets navigationStartedRef.
CalculateRouteCatch(q) ==
  /\ routeRequests' = Remove(routeRequests, q)
  /\ error' = SetState(error, "Failed to calculate route")
  /\ route' = SetState(route, <<>>)
  /\ routeInfo' = SetState(routeInfo, None)
  /\ navigationStartedRef' = FALSE
  /\ loading' = SetState(loading, FALSE)
  /\ activationAlertShown' = FALSE
  /\ UNCHANGED <<variant, segmentVars, speechQueue, mounted, currentLocation,
                 nextIntervalId, mountVars,
                 endpointVars, monitorVars, sosVars, ratingVars,
                 guardianVars>>

\* calculateRoute resolved with route_coords = coords: an empty answer throws
\* into the catch block; otherwise setRoute, setRouteInfo, startNavigation,
\* startMonitoring, and finally setLoading(false).
CalculateRouteResolve(q, coords) ==
  /\ variant = "part_002"
  /\ BagIn(q, routeRequests)
  /\ IF Len(coords) = 0
       THEN CalculateRouteCatch(q)
       ELSE /\ routeRequests' = Remove(routeRequests, q)
            /\ route' = SetState(route, coords)
            /\ routeInfo' = SetState(routeInfo, Some([mode |-> "safe"]))
            /\ StartNavigation(coords)
            /\ StartMonitoring(coords, q.currentLocation)
            /\ loading' = SetState(loading, FALSE)
            /\ activationAlertShown' = FALSE
            /\ UNCHANGED <<variant, segmentVars,
                           mounted, currentLocation, mountVars,
                           endpointVars, error, alertResponse,
                           lastCheckAnswer, monitorTicks,
                           safetyChecks, sosVars, ratingVars,
                 guardianVars>>

\* calculateRoute rejected (network error, or an error status of the service).
CalculateRouteReject(q) ==
  /\ variant = "part_002"
  /\ BagIn(q, routeRequests)
  /\ CalculateRouteCatch(q)

\* ---------------------------------------------------------- safety monitor
\* One firing of a live monitor interval: return when the closure's
\* currentLocation is null or its routeCoords empty, else call
\* checkSafetyStatus with the closure's position and route.
MonitorTick(iv) ==
  /\ iv \in monitorIntervals
  /\ monitorTicks < MaxTicks
  /\ monitorTicks' = monitorTicks + 1
  /\ safetyChecks' =
       IF iv.currentLocation = NoLoc \/ Len(iv.routeCoords) = 0
         THEN safetyChecks
         ELSE Add(safetyChecks, [current |-> iv.currentLocation,
                                    planned_route_coords |-> iv.routeCoords])
  /\ activationAlertShown' = FALSE
  /\ UNCHANGED <<variant, segmentVars, voiceVars,
                 mounted, currentLocation, nextIntervalId, mountVars,
                 endpointVars, routeVars, alertResponse, lastCheckAnswer,
                 monitoringIntervalRef,
                 monitorIntervals, sosVars, ratingVars,
                 guardianVars>>

\* checkSafetyStatus resolved with alert, with a callback that stores every
\* answer whatever its alert_type.
CheckSafetyResolveStoresAll(q, alert) ==
  /\ BagIn(q, safetyChecks)
  /\ safetyChecks' = Remove(safetyChecks, q)
  /\ alertResponse' = SetState(alertResponse, Some(alert))
  /\ lastCheckAnswer' = Some(alert)
  /\ activationAlertShown' = FALSE
  /\ UNCHANGED <<variant, segmentVars, voiceVars,
                 mounted, currentLocation, nextIntervalId, mountVars,
                 endpointVars, routeVars, monitoringIntervalRef,
                 monitorIntervals, monitorTicks, sosVars, ratingVars,
                 guardianVars>>

\* checkSafetyStatus resolved with alert: setAlertResponse(alert) when its
\* alert_type is non-empty.
CheckSafetyResolve(q, alert) ==
  /\ BagIn(q, safetyChecks)
  /\ safetyChecks' = Remove(safetyChecks, q)
  /\ alertResponse' =
       IF alert.alert_type # "" THEN SetState(alertResponse, Some(alert))
                                ELSE alertResponse
  /\ lastCheckAnswer' = Some(alert)
  /\ activationAlertShown' = FALSE
  /\ UNCHANGED <<variant, segmentVars, voiceVars,
                 mounted, currentLocation, nextIntervalId, mountVars,
                 endpointVars, routeVars, monitoringIntervalRef,
                 monitorIntervals, monitorTicks, sosVars, ratingVars,
                 guardianVars>>

\* checkSafetyStatus rejected, with a catch block that gives the monitor up:
\* clearInterval of the ref.
CheckSafetyRejectStopsMonitor(q) ==
  /\ BagIn(q, safetyChecks)
  /\ safetyChecks' = Remove(safetyChecks, q)
  /\ lastCheckAnswer' = None
  /\ monitorIntervals' =
       {iv \in monitorIntervals : iv.id # monitoringIntervalRef}
  /\ activationAlertShown' = FALSE
  /\ UNCHANGED <<variant, segmentVars, voiceVars,
                 mounted, currentLocation, nextIntervalId, mountVars,
                 endpointVars, routeVars, alertResponse, monitoringIntervalRef,
                 monitorTicks, sosVars, ratingVars,
                 guardianVars>>

\* checkSafetyStatus rejected: console.error only.
CheckSafetyReject(q) ==
  /\ BagIn(q, safetyChecks)
  /\ safetyChecks' = Remove(safetyChecks, q)
  /\ lastCheckAnswer' = None
  /\ activationAlertShown' = FALSE
  /\ UNCHANGED <<variant, segmentVars, voiceVars,
                 mounted, currentLocation, nextIntervalId, mountVars,
                 endpointVars, routeVars, alertResponse, monitoringIntervalRef,
                 monitorIntervals, monitorTicks, sosVars, ratingVars,
                 guardianVars>>

\* The dismiss button (and "Reroute Now") of the alert banner:
\* setAlertResponse(null).
DismissAlert ==
  /\ mounted
  /\ alertResponse # None
  /\ alertResponse' = None
  /\ activationAlertShown' = FALSE
  /\ UNCHANGED <<lastCheckAnswer, variant, segmentVars,
                 voiceVars, mounted, currentLocation,
                 nextIntervalId, mountVars,
                 endpointVars, routeVars, monitoringIntervalRef,
                 monitorIntervals, monitorTicks, safetyChecks, sosVars,
                 ratingVars,
                 guardianVars>>

\* The cleanup of the unmount effect: clearInterval of both refs.
Unmount ==
  /\ mounted
  /\ mounted' = FALSE
  /\ monitorIntervals' =
       {iv \in monitorIntervals : iv.id # monitoringIntervalRef}
  /\ sosIntervals' = {iv \in sosIntervals : iv.id # sosIntervalRef}
  /\ activationAlertShown' = FALSE
  /\ UNCHANGED <<variant, segmentVars, voiceVars,
                 currentLocation, nextIntervalId, mountVars,
                 endpointVars, routeVars, alertResponse, lastCheckAnswer,
                 monitoringIntervalRef,
                 monitorTicks, safetyChecks, sosActive, sosToken, sosIntervalRef,
                 sosNetVars, serverVars, sosAuxVars,
                 ratingVars, guardianVars>>

\* ------------------------------------------- navigation and safety monitor
NextMonitor ==
  \/ HealthCheckResolve
  \/ HealthCheckReject
  \/ \E c \in Fixes : GeolocationSuccess(c)
  \/ GeolocationError
  \/ \E c \in Coords : SetStart(c)
  \/ \E c \in Coords : SetEnd(c)
  \/ HandleCalculateRoute
  \/ \E q \in RouteRequests : \E coords \in RouteCoordsFor(q) :
       CalculateRouteResolve(q, coords)
  \/ \E q \in RouteRequests : CalculateRouteReject(q)
  \/ \E iv \in MonitorIntervals : MonitorTick(iv)
  \/ \E q \in SafetyChecks : \E alert \in AlertResponses :
       CheckSafetyResolve(q, alert)
  \/ \E q \in SafetyChecks : CheckSafetyReject(q)
  \/ DismissAlert
  \/ Unmount

SpecMonitor == InitLegacy /\ [][NextMonitor]_vars

\* ------------------------------------------------------------ SOS channel
\* The "Activate SOS" button is shown and enabled.
ActivateSOSEnabled == ~sosActive /\ currentLocation # NoLoc

\* Home.tsx handleActivateSOS up to its await: the activateSOS call.
HandleActivateSOS ==
  /\ mounted
  /\ variant = "Home"
  /\ ActivateSOSEnabled
  /\ Count(activateRequests) < MaxInFlight
  /\ activateRequests' =
       Add(activateRequests, [current |-> currentLocation])
  /\ activationAlertShown' = FALSE
  /\ UNCHANGED <<variant, mounted, currentLocation, nextIntervalId, navVars,
                 sosStateVars, deactivateRequests, geoRequests, locationUpdates,
                 serverVars, sosAuxVars,
                 guardianVars>>

\* activateSOS resolved: the service opens a session and returns its token;
\* setSosActive(true), setSosToken(response.token), and the broadcast
\* interval, whose closure holds response.token, is stored in sosIntervalRef.
ActivateSOSResolve(q) ==
  /\ BagIn(q, activateRequests)
  /\ nextIntervalId <= MaxIntervals
  /\ Len(issuedTokens) < MaxActivations
  /\ LET token == ServerToken(Len(issuedTokens) + 1) IN
       /\ issuedTokens' = Append(issuedTokens, token)
       /\ serverLive' = serverLive \cup {token}
       /\ sosActive' = SetState(sosActive, TRUE)
       /\ sosToken' = SetState(sosToken, token)
       /\ sosIntervals' =
            sosIntervals \cup {[id |-> nextIntervalId, token |-> token]}
  /\ sosIntervalRef' = nextIntervalId
  /\ nextIntervalId' = nextIntervalId + 1
  /\ activateRequests' = Remove(activateRequests, q)
  /\ activationAlertShown' = FALSE
  /\ UNCHANGED <<variant, mounted, currentLocation, navVars,
                 deactivateRequests, geoRequests, locationUpdates, clock,
                 serverEnded, deactivatedTokens, sosAuxVars,
                 guardianVars>>

\* activateSOS rejected, with a catch block that marks the session active.
ActivateSOSCatchActivates(q) ==
  /\ BagIn(q, activateRequests)
  /\ activateRequests' = Remove(activateRequests, q)
  /\ activationAlertShown' = TRUE
  /\ sosActive' = SetState(sosActive, TRUE)
  /\ UNCHANGED <<variant, mounted, currentLocation, nextIntervalId, navVars,
                 sosToken, sosIntervalRef, sosIntervals, deactivateRequests,
                 geoRequests, locationUpdates, serverVars, sosAuxVars,
                 guardianVars>>

\* activateSOS rejected: the catch block of handleActivateSOS runs
\* console.error and alert(detail || 'Failed to activate SOS'), and nothing
\* else; the state is the one in which the alert is on the screen.
ActivateSOSCatch(q) ==
  /\ BagIn(q, activateRequests)
  /\ activateRequests' = Remove(activateRequests, q)
  /\ activationAlertShown' = TRUE
  /\ UNCHANGED <<variant, mounted, currentLocation, nextIntervalId, navVars,
                 sosStateVars, deactivateRequests, geoRequests, locationUpdates,
                 serverVars, sosAuxVars,
                 guardianVars>>

\* activateSOS rejected and the alert of the catch block dismissed, as one
\* step: window.alert blocks the page until the user closes it, so no other
\* handler of the page can run between the two.
ActivateSOSReject(q) ==
  /\ BagIn(q, activateRequests)
  /\ activateRequests' = Remove(activateRequests, q)
  /\ activationAlertShown' = FALSE
  /\ UNCHANGED <<variant, mounted, currentLocation, nextIntervalId, navVars,
                 sosStateVars, deactivateRequests, geoRequests, locationUpdates,
                 serverVars, sosAuxVars,
                 guardianVars>>

\* One firing of a live broadcast interval: getCurrentPosition is called with
\* a callback whose closure holds the interval's token.
SosTick(iv) ==
  /\ iv \in sosIntervals
  /\ Count(geoRequests) < MaxPending
  /\ geoRequests' = Add(geoRequests, iv.token)
  /\ activationAlertShown' = FALSE
  /\ UNCHANGED <<variant, mounted, currentLocation, nextIntervalId, navVars,
                 sosStateVars, activateRequests, deactivateRequests,
                 locationUpdates, serverVars, sosAuxVars,
                 guardianVars>>

\* The success callback of a broadcast tick: setCurrentLocation(newLocation)
\* and the updateLocation call tagged with the closure's token.
SosGeoSuccess(q, c) ==
  /\ BagIn(q, geoRequests)
  /\ Count(locationUpdates) < MaxPending
  /\ geoRequests' = Remove(geoRequests, q)
  /\ currentLocation' = SetState(currentLocation, c)
  /\ locationUpdates' =
       Add(locationUpdates, [token |-> q, lat |-> c])
  /\ activationAlertShown' = FALSE
  /\ UNCHANGED <<variant, mounted, nextIntervalId, navVars, sosStateVars,
                 activateRequests, deactivateRequests, serverVars,
                 sosAuxVars,
                 guardianVars>>

\* The error callback of a broadcast tick, with a handler that also stops
\* the broadcast interval.
SosGeoErrorStopsBroadcast(q) ==
  /\ BagIn(q, geoRequests)
  /\ geoRequests' = Remove(geoRequests, q)
  /\ sosIntervals' = {iv \in sosIntervals : iv.id # sosIntervalRef}
  /\ activationAlertShown' = FALSE
  /\ UNCHANGED <<variant, mounted, currentLocation, nextIntervalId, navVars,
                 sosActive, sosToken, sosIntervalRef, activateRequests,
                 deactivateRequests, locationUpdates, serverVars, sosAuxVars,
                 guardianVars>>

\* The error callback of a broadcast tick: console.error only.
SosGeoError(q) ==
  /\ BagIn(q, geoRequests)
  /\ geoRequests' = Remove(geoRequests, q)
  /\ activationAlertShown' = FALSE
  /\ UNCHANGED <<variant, mounted, currentLocation, nextIntervalId, navVars,
                 sosStateVars, activateRequests, deactivateRequests,
                 locationUpdates, serverVars, sosAuxVars, guardianVars>>

\* updateLocation resolved: nothing is done with the result (nor, in the
\* catch block, with a rejection).
UpdateLocationDone(q) ==
  /\ BagIn(q, locationUpdates)
  /\ locationUpdates' = Remove(locationUpdates, q)
  /\ activationAlertShown' = FALSE
  /\ UNCHANGED <<variant, mounted, currentLocation, nextIntervalId, navVars,
                 sosStateVars, activateRequests, deactivateRequests,
                 geoRequests, serverVars, sosAuxVars, guardianVars>>

\* updateLocation rejected: the catch block of the callback, console.error
\* only.
UpdateLocationReject(q) ==
  /\ BagIn(q, locationUpdates)
  /\ locationUpdates' = Remove(locationUpdates, q)
  /\ pushFailed' = TRUE
  /\ activationAlertShown' = FALSE
  /\ UNCHANGED <<variant, mounted, currentLocation, nextIntervalId, navVars,
                 sosStateVars, activateRequests, deactivateRequests,
                 geoRequests, serverVars, distressMessages,
                 locationAlertShown, keyVars, guardianVars>>

\* Home.tsx handleDeactivateSOS up to its await: return when sosToken is
\* null, else the deactivateSOS(sosToken) call.  The button is shown while
\* sosActive.
HandleDeactivateSOS ==
  /\ mounted
  /\ variant = "Home"
  /\ sosActive
  /\ sosToken # NULL
  /\ Count(deactivateRequests) < MaxPending
  /\ deactivateRequests' = Add(deactivateRequests, sosToken)
  /\ activationAlertShown' = FALSE
  /\ UNCHANGED <<variant, mounted, currentLocation, nextIntervalId, navVars,
                 sosStateVars, activateRequests, geoRequests, locationUpdates,
                 serverVars, sosAuxVars,
                 guardianVars>>

\* deactivateSOS resolved, without setSosActive(false).
DeactivateSOSResolveKeepsActive(q) ==
  /\ BagIn(q, deactivateRequests)
  /\ serverLive' = serverLive \ {q}
  /\ serverEnded' = serverEnded \cup {q}
  /\ deactivatedTokens' = deactivatedTokens \cup {q}
  /\ sosToken' = SetState(sosToken, NULL)
  /\ sosIntervals' = {iv \in sosIntervals : iv.id # sosIntervalRef}
  /\ deactivateRequests' = Remove(deactivateRequests, q)
  /\ activationAlertShown' = FALSE
  /\ UNCHANGED <<variant, mounted, currentLocation, nextIntervalId, navVars,
                 sosActive, sosIntervalRef, activateRequests, geoRequests,
                 locationUpdates, clock, issuedTokens, sosAuxVars,
                 guardianVars>>

\* deactivateSOS resolved: the service has ended the session of the token;
\* setSosActive(false), setSosToken(null), clearInterval(sosIntervalRef.current).
DeactivateSOSResolve(q) ==
  /\ BagIn(q, deactivateRequests)
  /\ serverLive' = serverLive \ {q}
  /\ serverEnded' = serverEnded \cup {q}
  /\ deactivatedTokens' = deactivatedTokens \cup {q}
  /\ sosActive' = SetState(sosActive, FALSE)
  /\ sosToken' = SetState(sosToken, NULL)
  /\ sosIntervals' = {iv \in sosIntervals : iv.id # sosIntervalRef}
  /\ deactivateRequests' = Remove(deactivateRequests, q)
  /\ activationAlertShown' = FALSE
  /\ UNCHANGED <<variant, mounted, currentLocation, nextIntervalId, navVars,
                 sosIntervalRef, activateRequests, geoRequests, locationUpdates,
                 clock, issuedTokens, sosAuxVars,
                 guardianVars>>

\* deactivateSOS rejected: the catch block, console.error only.
DeactivateSOSReject(q) ==
  /\ BagIn(q, deactivateRequests)
  /\ deactivateRequests' = Remove(deactivateRequests, q)
  /\ activationAlertShown' = FALSE
  /\ UNCHANGED <<variant, mounted, currentLocation, nextIntervalId, navVars,
                 sosStateVars, activateRequests, geoRequests, locationUpdates,
                 serverVars, sosAuxVars,
                 guardianVars>>

\* The SOS button of Home.tsx pressed while no earlier press of it is still
\* outstanding.
ActivateSOSOnce == Count(activateRequests) = 0 /\ HandleActivateSOS
DeactivateSOSOnce == Count(deactivateRequests) = 0 /\ HandleDeactivateSOS

\* Time passes: Date.now() returns a later value.
AdvanceClock ==
  /\ variant = "part_002"
  /\ clock < MaxClock
  /\ clock' = clock + 1
  /\ UNCHANGED activationAlertShown
  /\ UNCHANGED <<variant, mounted, currentLocation, nextIntervalId, navVars,
                 sosStateVars, sosNetVars, issuedTokens, serverLive,
                 serverEnded, deactivatedTokens, sosAuxVars,
                 guardianVars>>

\* part_002 handleActivateSOS without its location check.
ActivateSOSLocalUnchecked(loc) ==
  /\ Len(issuedTokens) < MaxActivations
  /\ distressMessages' = Append(distressMessages, loc)
  /\ issuedTokens' = Append(issuedTokens, ClientToken(clock))
  /\ sosActive' = TRUE
  /\ sosToken' = ClientToken(clock)
  /\ listenerLocation' = currentLocation
  /\ UNCHANGED locationAlertShown

\* part_002 handleActivateSOS, run in a closure whose currentLocation is loc:
\* alert and return when loc is null; else the WhatsApp message with the map
\* link of loc is opened, then setSosActive(true) and
\* setSosToken('sos_' + Date.now()).  The change of sosActive re-registers
\* the key listener with the closure of the new render.
ActivateSOSLocal(loc) ==
  IF loc = NoLoc
    THEN /\ locationAlertShown' = TRUE
         /\ UNCHANGED <<distressMessages, issuedTokens, sosActive, sosToken,
                        listenerLocation>>
    ELSE /\ Len(issuedTokens) < MaxActivations
         /\ distressMessages' = Append(distressMessages, loc)
         /\ issuedTokens' = Append(issuedTokens, ClientToken(clock))
         /\ sosActive' = TRUE
         /\ sosToken' = ClientToken(clock)
         /\ listenerLocation' = currentLocation
         /\ UNCHANGED locationAlertShown

\* The "Activate SOS" button of part_002: handleActivateSOS of the current
\* render.
HandleActivateSOSLocal ==
  /\ mounted
  /\ variant = "part_002"
  /\ ActivateSOSEnabled
  /\ ActivateSOSLocal(currentLocation)
  /\ activationAlertShown' = FALSE
  /\ UNCHANGED <<variant, mounted, currentLocation, nextIntervalId, navVars,
                 sosIntervalRef, sosIntervals, sosNetVars, clock, serverLive,
                 serverEnded, deactivatedTokens, pushFailed, spacebarPresses,
                 spacebarTimer, firstPressAge, guardianVars>>

\* part_002 handleDeactivateSOS, with a clearInterval that is given the
\* monitor's ref.
HandleDeactivateSOSLocalClearsMonitor ==
  /\ mounted
  /\ variant = "part_002"
  /\ sosActive
  /\ sosToken # NULL
  /\ deactivatedTokens' = deactivatedTokens \cup {sosToken}
  /\ sosActive' = FALSE
  /\ sosToken' = NULL
  /\ monitorIntervals' =
       {iv \in monitorIntervals : iv.id # monitoringIntervalRef}
  /\ listenerLocation' = currentLocation
  /\ activationAlertShown' = FALSE
  /\ UNCHANGED <<variant, segmentVars, voiceVars,
                 mounted, currentLocation, nextIntervalId, mountVars,
                 endpointVars, routeVars, alertResponse, lastCheckAnswer,
                 monitoringIntervalRef,
                 monitorTicks, safetyChecks, sosIntervals,
                 sosIntervalRef, sosNetVars, clock, issuedTokens, serverLive,
                 serverEnded, distressMessages, pushFailed,
                 locationAlertShown, spacebarPresses, spacebarTimer,
                 firstPressAge, ratingVars,
                 guardianVars>>

\* part_002 handleDeactivateSOS: return when sosToken is null, else
\* setSosActive(false), setSosToken(null), clearInterval(sosIntervalRef.current).
\* The change of sosActive re-registers the key listener.
HandleDeactivateSOSLocal ==
  /\ mounted
  /\ variant = "part_002"
  /\ sosActive
  /\ sosToken # NULL
  /\ deactivatedTokens' = deactivatedTokens \cup {sosToken}
  /\ sosActive' = FALSE
  /\ sosToken' = NULL
  /\ sosIntervals' = {iv \in sosIntervals : iv.id # sosIntervalRef}
  /\ listenerLocation' = currentLocation
  /\ activationAlertShown' = FALSE
  /\ UNCHANGED <<variant, mounted, currentLocation, nextIntervalId, navVars,
                 sosIntervalRef, sosNetVars, clock, issuedTokens, serverLive,
                 serverEnded, distressMessages, pushFailed,
                 locationAlertShown, spacebarPresses, spacebarTimer,
                 firstPressAge, guardianVars>>

NextSOS ==
  \/ \E c \in Fixes : GeolocationSuccess(c)
  \/ GeolocationError
  \/ HandleActivateSOS
  \/ \E q \in ActivateRequests : ActivateSOSResolve(q)
  \/ \E q \in ActivateRequests : ActivateSOSReject(q)
  \/ \E iv \in SosIntervals : SosTick(iv)
  \/ \E q \in ServerTokens : \E c \in Fixes : SosGeoSuccess(q, c)
  \/ \E q \in ServerTokens : SosGeoError(q)
  \/ \E q \in LocationUpdates : UpdateLocationDone(q)
  \/ HandleDeactivateSOS
  \/ \E q \in ServerTokens : DeactivateSOSResolve(q)
  \/ \E q \in ServerTokens : DeactivateSOSReject(q)
  \/ AdvanceClock
  \/ HandleActivateSOSLocal
  \/ HandleDeactivateSOSLocal
  \/ Unmount

SpecSOS == (InitHome \/ InitLegacy) /\ [][NextSOS]_vars

\* The broadcast of Home.tsx, with the button pressed once at a time.
NextBroadcast ==
  \/ \E c \in Fixes : GeolocationSuccess(c)
  \/ ActivateSOSOnce
  \/ \E q \in ActivateRequests : ActivateSOSResolve(q)
  \/ \E iv \in SosIntervals : SosTick(iv)
  \/ \E q \in ServerTokens : \E c \in Fixes : SosGeoSuccess(q, c)
  \/ \E q \in ServerTokens : SosGeoError(q)
  \/ \E q \in LocationUpdates : UpdateLocationDone(q)
  \/ \E q \in LocationUpdates : UpdateLocationReject(q)
  \/ DeactivateSOSOnce
  \/ \E q \in ServerTokens : DeactivateSOSResolve(q)
  \/ \E q \in ServerTokens : DeactivateSOSReject(q)
  \/ GeolocationError
  \/ Unmount

SpecBroadcast == InitHome /\ [][NextBroadcast]_vars

\* ------------------------------------------------- keyboard trigger (part_002)
\* A keydown of the space bar reaches handleSpacebarPress of the registered
\* listener, whose closure holds sosActive = false: the pending timeout is
\* cleared and the updater of setSpacebarPresses runs on the current
\* counter; it starts the 2000 ms timeout and, when the new count is 3, calls
\* setSpacebarPresses(0) and the closure's handleActivateSOS().  The updater
\* itself returns the new count; whether that 3 or the nested 0 is applied
\* last depends on when React runs the updater, so both are possible (reset).
SpacebarPress(reset) ==
  /\ mounted
  /\ variant = "part_002"
  /\ ~sosActive
  /\ spacebarPresses < MaxPresses
  /\ spacebarTimer' = SpacebarWindow
  /\ firstPressAge' = IF spacebarPresses = 0 THEN 0 ELSE firstPressAge
  /\ IF spacebarPresses + 1 = 3
       THEN /\ spacebarPresses' = IF reset THEN 0 ELSE 3
            /\ ActivateSOSLocal(listenerLocation)
       ELSE /\ reset
            /\ spacebarPresses' = spacebarPresses + 1
            /\ UNCHANGED <<distressMessages, issuedTokens, sosActive, sosToken,
                           listenerLocation, locationAlertShown>>
  /\ activationAlertShown' = FALSE
  /\ UNCHANGED <<variant, mounted, currentLocation, nextIntervalId, navVars,
                 sosIntervalRef, sosIntervals, sosNetVars, clock, serverLive,
                 serverEnded, deactivatedTokens, pushFailed, guardianVars>>

\* The timeout of spacebarTimeoutRef fires: setSpacebarPresses(0).
SpacebarTimeoutFires ==
  /\ variant = "part_002"
  /\ spacebarTimer = 0
  /\ spacebarTimer' = NoTimer
  /\ spacebarPresses' = SetState(spacebarPresses, 0)
  /\ activationAlertShown' = FALSE
  /\ UNCHANGED <<variant, mounted, currentLocation, nextIntervalId, navVars,
                 sosStateVars, sosNetVars, serverVars, distressMessages,
                 pushFailed, locationAlertShown, listenerLocation,
                 firstPressAge, guardianVars>>

\* 500 ms pass.  A timeout that is due fires before more time passes.
KeyTimePasses ==
  /\ variant = "part_002"
  /\ spacebarTimer > 0
  /\ spacebarTimer' = spacebarTimer - 1
  /\ firstPressAge' =
       IF firstPressAge < 2 * SpacebarWindow THEN firstPressAge + 1
                                            ELSE firstPressAge
  /\ UNCHANGED activationAlertShown
  /\ UNCHANGED <<variant, mounted, currentLocation, nextIntervalId, navVars,
                 sosStateVars, sosNetVars, serverVars, distressMessages,
                 pushFailed, locationAlertShown, spacebarPresses,
                 listenerLocation, guardianVars>>

\* Every way an SOS activation is requested, in both builds: the button,
\* and in part_002 the keyboard trigger.
NextActivation ==
  \/ \E c \in Fixes : GeolocationSuccess(c)
  \/ GeolocationError
  \/ \E reset \in BOOLEAN : SpacebarPress(reset)
  \/ SpacebarTimeoutFires
  \/ KeyTimePasses
  \/ HandleActivateSOSLocal
  \/ HandleDeactivateSOSLocal
  \/ AdvanceClock
  \/ ActivateSOSOnce
  \/ \E q \in ActivateRequests : ActivateSOSResolve(q)
  \/ \E q \in ActivateRequests : ActivateSOSReject(q)
  \/ DeactivateSOSOnce
  \/ \E q \in ServerTokens : DeactivateSOSResolve(q)

SpecActivation == (InitHome \/ InitLegacy) /\ [][NextActivation]_vars

\* The SOS session of Home.tsx with activations that can fail, the buttons
\* pressed once at a time.
NextActivationFailure ==
  \/ \E c \in Fixes : GeolocationSuccess(c)
  \/ GeolocationError
  \/ ActivateSOSOnce
  \/ \E q \in ActivateRequests : ActivateSOSResolve(q)
  \/ \E q \in ActivateRequests : ActivateSOSCatch(q)
  \/ \E iv \in SosIntervals : SosTick(iv)
  \/ \E q \in ServerTokens : \E c \in Fixes : SosGeoSuccess(q, c)
  \/ \E q \in ServerTokens : SosGeoError(q)
  \/ \E q \in LocationUpdates : UpdateLocationDone(q)
  \/ DeactivateSOSOnce
  \/ \E q \in ServerTokens : DeactivateSOSResolve(q)
  \/ Unmount

SpecActivationFailure == InitHome /\ [][NextActivationFailure]_vars

\* ------------------------------------------------ journey rating (Home.tsx)
\* Home.tsx handleCalculateRoute up to its await: setLoading(true),
\* setError(null) and the fetch of /api/route.
HomeCalculateRoute ==
  /\ mounted
  /\ variant = "Home"
  /\ CalculateRouteEnabled
  /\ Count(routeRequests) < MaxInFlight
  /\ loading' = TRUE
  /\ error' = NULL
  /\ routeRequests' = Add(routeRequests,
       [start |-> start, end |-> end, currentLocation |-> currentLocation])
  /\ activationAlertShown' = FALSE
  /\ UNCHANGED <<variant, segmentVars, voiceVars,
                 mounted, currentLocation, nextIntervalId, mountVars,
                 endpointVars, route, routeInfo, monitorVars, ratingVars,
                 sosVars, guardianVars>>

\* The route request resolved: the route of the answer (none, or a path from
\* the requested start to the requested end) is stored, journeySegments is
\* set when the answer carries segments (segs is not null), setRouteInfo,
\* and finally setLoading(false).
HomeRouteResolve(q) ==
  /\ variant = "Home"
  /\ BagIn(q, routeRequests)
  /\ routeRequests' = Remove(routeRequests, q)
  /\ \E coords \in {<<>>, <<q.start, q.end>>} :
       route' = SetState(route, coords)
  /\ \E segs \in {None} \cup {Some(sq) : sq \in SegmentLists} :
       /\ journeySegments' =
            IF segs = None THEN journeySegments
                           ELSE SetState(journeySegments, segs[1])
       /\ answerSegments' = segs
  /\ routeInfo' = SetState(routeInfo, Some([mode |-> "both"]))
  /\ loading' = SetState(loading, FALSE)
  /\ activationAlertShown' = FALSE
  /\ UNCHANGED <<variant, ratedJourney, segmentVars, voiceVars,
                 mounted, currentLocation, nextIntervalId, mountVars,
                 endpointVars, error, monitorVars, journeyActive,
                 showJourneyRating, overallRating, ratingLoading,
                 ratingSuccess, ratingBatches, heatmapRefreshes, ratingResets,
                 errorTimers, batchesStarted, batchSegments, feedbackIssued,
                 feedbackSucceeded, batchResult, sosVars, guardianVars>>

\* The route request failed, with a handler that has no finally block.
HomeRouteRejectKeepsLoading(q) ==
  /\ variant = "Home"
  /\ BagIn(q, routeRequests)
  /\ routeRequests' = Remove(routeRequests, q)
  /\ error' = SetState(error, "Failed to calculate route")
  /\ route' = SetState(route, <<>>)
  /\ routeInfo' = SetState(routeInfo, None)
  /\ journeySegments' = SetState(journeySegments, <<>>)
  /\ activationAlertShown' = FALSE
  /\ UNCHANGED <<variant, ratedJourney, segmentVars, voiceVars,
                 mounted, currentLocation, nextIntervalId, mountVars,
                 endpointVars, loading, monitorVars, journeyActive,
                 showJourneyRating,
                 overallRating, ratingLoading, ratingSuccess, ratingBatches,
                 heatmapRefreshes, ratingResets, errorTimers, batchesStarted,
                 batchSegments, feedbackIssued, feedbackSucceeded, batchResult,
                 sosVars, guardianVars,
                 answerSegments>>

\* The route request failed: the catch and finally blocks.
HomeRouteReject(q) ==
  /\ variant = "Home"
  /\ BagIn(q, routeRequests)
  /\ routeRequests' = Remove(routeRequests, q)
  /\ error' = SetState(error, "Failed to calculate route")
  /\ route' = SetState(route, <<>>)
  /\ routeInfo' = SetState(routeInfo, None)
  /\ journeySegments' = SetState(journeySegments, <<>>)
  /\ loading' = SetState(loading, FALSE)
  /\ activationAlertShown' = FALSE
  /\ UNCHANGED <<variant, ratedJourney, segmentVars, voiceVars,
                 mounted, currentLocation, nextIntervalId, mountVars,
                 endpointVars, monitorVars, journeyActive, showJourneyRating,
                 overallRating, ratingLoading, ratingSuccess, ratingBatches,
                 heatmapRefreshes, ratingResets, errorTimers, batchesStarted,
                 batchSegments, feedbackIssued, feedbackSucceeded, batchResult,
                 sosVars, guardianVars,
                 answerSegments>>

\* The journey card with its Start / End button is rendered.
JourneyControlsShown ==
  routeInfo # None /\ Len(journeySegments) > 0 /\ ~showJourneyRating

\* handleStartJourney from its button: the journey starts and the opening
\* announcement is spoken.
HandleStartJourney ==
  /\ mounted
  /\ variant = "Home"
  /\ JourneyControlsShown
  /\ ~journeyActive
  /\ journeyActive' = TRUE
  /\ showJourneyRating' = FALSE
  /\ overallRating' = 0
  /\ speechQueue' = Speak(speechQueue, "Starting your journey", 0)
  /\ activationAlertShown' = FALSE
  /\ UNCHANGED <<variant, ratedJourney, segmentVars, navigationStartedRef,
                 mounted, currentLocation, nextIntervalId, mountVars,
                 endpointVars, routeVars, monitorVars, journeySegments,
                 ratingLoading, ratingSuccess, ratingBatches, heatmapRefreshes,
                 ratingResets, errorTimers, batchesStarted, batchSegments,
                 feedbackIssued, feedbackSucceeded, batchResult, sosVars,
                 guardianVars,
                 answerSegments>>

\* handleEndJourney without its announcement.
HandleEndJourneySilent ==
  /\ mounted
  /\ variant = "Home"
  /\ JourneyControlsShown
  /\ journeyActive
  /\ journeyActive' = FALSE
  /\ showJourneyRating' = TRUE
  /\ activationAlertShown' = FALSE
  /\ UNCHANGED <<variant, ratedJourney, segmentVars, voiceVars,
                 mounted, currentLocation, nextIntervalId, mountVars,
                 endpointVars, routeVars, monitorVars, journeySegments,
                 overallRating, ratingLoading, ratingSuccess, ratingBatches,
                 heatmapRefreshes, ratingResets, errorTimers, batchesStarted,
                 batchSegments, feedbackIssued, feedbackSucceeded, batchResult,
                 sosVars, guardianVars,
                 answerSegments>>

\* handleEndJourney: the journey ends, the rating card is opened and the
\* closing announcement is spoken.
HandleEndJourney ==
  /\ mounted
  /\ variant = "Home"
  /\ JourneyControlsShown
  /\ journeyActive
  /\ journeyActive' = FALSE
  /\ showJourneyRating' = TRUE
  /\ speechQueue' = Speak(speechQueue, "Journey complete", 0)
  /\ activationAlertShown' = FALSE
  /\ UNCHANGED <<variant, ratedJourney, segmentVars, navigationStartedRef,
                 mounted, currentLocation, nextIntervalId, mountVars,
                 endpointVars, routeVars, monitorVars, journeySegments,
                 overallRating, ratingLoading, ratingSuccess, ratingBatches,
                 heatmapRefreshes, ratingResets, errorTimers, batchesStarted,
                 batchSegments, feedbackIssued, feedbackSucceeded, batchResult,
                 sosVars, guardianVars,
                 answerSegments>>

\* A star of the rating card is clicked: setOverallRating(star).
SetOverallRating(star) ==
  /\ mounted
  /\ variant = "Home"
  /\ showJourneyRating
  /\ overallRating # star
  /\ overallRating' = star
  /\ activationAlertShown' = FALSE
  /\ UNCHANGED <<variant, ratedJourney, segmentVars, voiceVars,
                 mounted, currentLocation, nextIntervalId, mountVars,
                 endpointVars, routeVars, monitorVars, journeySegments,
                 journeyActive, showJourneyRating, ratingLoading,
                 ratingSuccess, ratingBatches, heatmapRefreshes, ratingResets,
                 errorTimers, batchesStarted, batchSegments, feedbackIssued,
                 feedbackSucceeded, batchResult, sosVars, guardianVars,
                 answerSegments>>

\* The submitFeedback call the loop makes when it comes to index i of the
\* segments: none past the last segment.
CallFor(segments, i) == IF i \in DOMAIN segments THEN <<segments[i]>> ELSE <<>>

\* The submit button of the rating card is enabled.
SubmitJourneyRatingEnabled ==
  showJourneyRating /\ overallRating # 0 /\ ~ratingLoading

\* The running calls whose loop is at a segment: each of them has one
\* submitFeedback call outstanding.
FeedbackRequests ==
  {b \in Pending(ratingBatches) : b.next <= Len(b.segments)}

\* s is an initial part of t.
IsPrefix(s, t) == Len(s) <= Len(t) /\ s = SubSeq(t, 1, Len(s))

RECURSIVE SumOver(_, _)
SumOver(S, B) ==
  IF S = {} THEN 0
  ELSE LET b == CHOOSE x \in S : TRUE
       IN CopiesIn(b, B) + SumOver(S \ {b}, B)

\* The number of submitFeedback calls that are outstanding.
OutstandingFeedback == SumOver(FeedbackRequests, ratingBatches)

\* The start of a handleSubmitJourneyRating call whatever ratingLoading is.
StartRatingBatchUnguarded ==
  /\ showJourneyRating
  /\ overallRating # 0
  /\ batchesStarted < MaxBatches
  /\ batchesStarted' = batchesStarted + 1
  /\ ratingLoading' = TRUE
  /\ ratingBatches' = Add(ratingBatches,
       [segments |-> journeySegments, rating |-> overallRating, next |-> 1])
  /\ batchSegments' = journeySegments
  /\ feedbackIssued' = CallFor(journeySegments, 1)
  /\ feedbackSucceeded' = <<>>
  /\ batchResult' = "running"

\* handleSubmitJourneyRating up to its first await: setRatingLoading(true),
\* then the loop over the journeySegments of the closure calls submitFeedback
\* for the first segment (or, without segments, getSafetyHeatmap is called).
StartRatingBatch ==
  /\ SubmitJourneyRatingEnabled
  /\ batchesStarted < MaxBatches
  /\ batchesStarted' = batchesStarted + 1
  /\ ratingLoading' = TRUE
  /\ ratingBatches' = Add(ratingBatches,
       [segments |-> journeySegments, rating |-> overallRating, next |-> 1])
  /\ batchSegments' = journeySegments
  /\ feedbackIssued' = CallFor(journeySegments, 1)
  /\ feedbackSucceeded' = <<>>
  /\ batchResult' = "running"

\* The submit button of the rating card.
HandleSubmitJourneyRating ==
  /\ mounted
  /\ variant = "Home"
  /\ StartRatingBatch
  /\ activationAlertShown' = FALSE
  /\ UNCHANGED <<variant, ratedJourney, segmentVars, voiceVars,
                 mounted, currentLocation, nextIntervalId, mountVars,
                 endpointVars, routeVars, monitorVars, journeySegments,
                 journeyActive, showJourneyRating, overallRating,
                 ratingSuccess, heatmapRefreshes, ratingResets, errorTimers,
                 sosVars, guardianVars,
                 answerSegments>>

\* submitFeedback of the i-th segment of a running call was rejected, with a
\* loop that goes on after a rejection.
SubmitFeedbackRejectContinues(i) ==
  \E b \in Pending(ratingBatches) :
    /\ b.next = i
    /\ i <= Len(b.segments)
    /\ ratingBatches' =
         Add(Remove(ratingBatches, b), [b EXCEPT !.next = b.next + 1])
    /\ feedbackIssued' =
         feedbackIssued \o CallFor(b.segments, b.next + 1)
    /\ batchResult' = "failed"
    /\ activationAlertShown' = FALSE
    /\ UNCHANGED <<variant, ratedJourney, segmentVars, voiceVars,
                   mounted, currentLocation, nextIntervalId, mountVars,
                   endpointVars, routeVars, monitorVars, journeySegments,
                   journeyActive, showJourneyRating, overallRating,
                   ratingLoading, ratingSuccess, heatmapRefreshes, ratingResets,
                   errorTimers, batchesStarted, batchSegments,
                   feedbackSucceeded, sosVars, guardianVars,
                 answerSegments>>

\* submitFeedback of the i-th segment of a running call resolved: the loop
\* goes to the next segment and calls submitFeedback for it, or, after the
\* last segment, getSafetyHeatmap is called.
SubmitFeedbackResolve(i) ==
  \E b \in Pending(ratingBatches) :
    /\ b.next = i
    /\ i <= Len(b.segments)
    /\ ratingBatches' =
         Add(Remove(ratingBatches, b), [b EXCEPT !.next = b.next + 1])
    /\ feedbackSucceeded' = Append(feedbackSucceeded, b.segments[b.next])
    /\ feedbackIssued' =
         feedbackIssued \o CallFor(b.segments, b.next + 1)
    /\ activationAlertShown' = FALSE
    /\ UNCHANGED <<variant, ratedJourney, segmentVars, voiceVars,
                   mounted, currentLocation, nextIntervalId, mountVars,
                   endpointVars, routeVars, monitorVars, journeySegments,
                   journeyActive, showJourneyRating, overallRating,
                   ratingLoading, ratingSuccess, heatmapRefreshes, ratingResets,
                   errorTimers, batchesStarted, batchSegments, batchResult,
                   sosVars, guardianVars,
                 answerSegments>>

\* The catch and finally blocks of handleSubmitJourneyRating: setError, the
\* timeout that clears the error, setRatingLoading(false).
RatingBatchCatch(b) ==
  /\ ratingBatches' = Remove(ratingBatches, b)
  /\ error' = SetState(error, "Failed to submit rating. Please try again.")
  /\ errorTimers' = errorTimers + 1
  /\ ratingLoading' = SetState(ratingLoading, FALSE)

\* submitFeedback of the i-th segment of a running call was rejected, with a
\* catch block that refreshes the heatmap as well.
SubmitFeedbackRejectRefreshes(i) ==
  \E b \in Pending(ratingBatches) :
    /\ b.next = i
    /\ i <= Len(b.segments)
    /\ RatingBatchCatch(b)
    /\ batchResult' = "failed"
    /\ heatmapRefreshes' = heatmapRefreshes + 1
    /\ activationAlertShown' = FALSE
    /\ UNCHANGED <<variant, ratedJourney, segmentVars, voiceVars,
                   mounted, currentLocation, nextIntervalId, mountVars,
                   endpointVars, route, routeInfo, loading, routeRequests,
                   monitorVars, journeySegments, journeyActive,
                   showJourneyRating, overallRating, ratingSuccess,
                   ratingResets, batchesStarted, batchSegments,
                   feedbackIssued, feedbackSucceeded, sosVars, guardianVars,
                 answerSegments>>

\* submitFeedback of the i-th segment of a running call was rejected: the
\* loop is left through the catch block.
SubmitFeedbackReject(i) ==
  \E b \in Pending(ratingBatches) :
    /\ b.next = i
    /\ i <= Len(b.segments)
    /\ RatingBatchCatch(b)
    /\ batchResult' = "failed"
    /\ activationAlertShown' = FALSE
    /\ UNCHANGED <<variant, ratedJourney, segmentVars, voiceVars,
                   mounted, currentLocation, nextIntervalId, mountVars,
                   endpointVars, route, routeInfo, loading, routeRequests,
                   monitorVars, journeySegments, journeyActive,
                   showJourneyRating, overallRating, ratingSuccess,
                   heatmapRefreshes, ratingResets, batchesStarted, batchSegments,
                   feedbackIssued, feedbackSucceeded, sosVars, guardianVars,
                 answerSegments>>

\* getSafetyHeatmap resolved after the loop: setHeatmapData,
\* setRatingSuccess, the timeout that resets the journey, and finally
\* setRatingLoading(false).
HeatmapResolve ==
  \E b \in Pending(ratingBatches) :
    /\ b.next > Len(b.segments)
    /\ ratingBatches' = Remove(ratingBatches, b)
    /\ heatmapRefreshes' = heatmapRefreshes + 1
    /\ ratingSuccess' = SetState(ratingSuccess, TRUE)
    /\ ratingResets' = ratingResets + 1
    /\ ratedJourney' = [start |-> start, end |-> end, route |-> route,
                        segments |-> journeySegments]
    /\ ratingLoading' = SetState(ratingLoading, FALSE)
    /\ batchResult' = "done"
    /\ activationAlertShown' = FALSE
    /\ UNCHANGED <<variant, segmentVars, voiceVars,
                   mounted, currentLocation, nextIntervalId, mountVars,
                   endpointVars, routeVars, monitorVars, journeySegments,
                   journeyActive, showJourneyRating, overallRating, errorTimers,
                   batchesStarted, batchSegments, feedbackIssued,
                   feedbackSucceeded, sosVars, guardianVars,
                 answerSegments>>

\* getSafetyHeatmap rejected after the loop: the catch and finally blocks.
HeatmapReject ==
  \E b \in Pending(ratingBatches) :
    /\ b.next > Len(b.segments)
    /\ RatingBatchCatch(b)
    /\ batchResult' = "refresh failed"
    /\ activationAlertShown' = FALSE
    /\ UNCHANGED <<variant, ratedJourney, segmentVars, voiceVars,
                   mounted, currentLocation, nextIntervalId, mountVars,
                   endpointVars, route, routeInfo, loading, routeRequests,
                   monitorVars, journeySegments, journeyActive,
                   showJourneyRating, overallRating, ratingSuccess,
                   heatmapRefreshes, ratingResets, batchesStarted, batchSegments,
                   feedbackIssued, feedbackSucceeded, sosVars, guardianVars,
                 answerSegments>>

\* The timeout set after a successful batch fires: the rating card is
\* closed and the journey, the route and its endpoints are reset.
RatingResetFires ==
  /\ ratingResets > 0
  /\ ratingResets' = ratingResets - 1
  /\ ratedJourney' = IF ratingResets = 1 THEN NoJourney ELSE ratedJourney
  /\ showJourneyRating' = SetState(showJourneyRating, FALSE)
  /\ journeySegments' = SetState(journeySegments, <<>>)
  /\ overallRating' = SetState(overallRating, 0)
  /\ ratingSuccess' = SetState(ratingSuccess, FALSE)
  /\ route' = SetState(route, <<>>)
  /\ routeInfo' = SetState(routeInfo, None)
  /\ start' = SetState(start, NoLoc)
  /\ end' = SetState(end, NoLoc)
  /\ activationAlertShown' = FALSE
  /\ UNCHANGED <<variant, segmentVars, voiceVars,
                 mounted, currentLocation, nextIntervalId, mountVars,
                 loading, error, routeRequests, monitorVars, journeyActive,
                 ratingLoading, ratingBatches, heatmapRefreshes, errorTimers,
                 batchesStarted, batchSegments, feedbackIssued,
                 feedbackSucceeded, batchResult, sosVars, guardianVars,
                 answerSegments>>

\* A timeout that clears the error fires: setError(null).
ErrorTimeoutFires ==
  /\ errorTimers > 0
  /\ errorTimers' = errorTimers - 1
  /\ error' = SetState(error, NULL)
  /\ activationAlertShown' = FALSE
  /\ UNCHANGED <<variant, ratedJourney, segmentVars, voiceVars,
                 mounted, currentLocation, nextIntervalId, mountVars,
                 endpointVars, route, routeInfo, loading, routeRequests,
                 monitorVars, journeySegments, journeyActive,
                 showJourneyRating, overallRating, ratingLoading,
                 ratingSuccess, ratingBatches, heatmapRefreshes, ratingResets,
                 batchesStarted, batchSegments, feedbackIssued,
                 feedbackSucceeded, batchResult, sosVars, guardianVars,
                 answerSegments>>

\* The route of the one journey a run rates is calculated before the journey
\* starts and before any rating is submitted.
CalculateJourneyRouteOnce ==
  /\ ~journeyActive
  /\ ~showJourneyRating
  /\ batchesStarted = 0
  /\ HomeCalculateRoute

\* The journey starts when no route request is outstanding.
StartJourneyOnce ==
  /\ Count(routeRequests) = 0
  /\ HandleStartJourney

\* The journey goes from place 1 to place MaxCoord.
NextRating ==
  \/ SetStart(1)
  \/ SetEnd(MaxCoord)
  \/ CalculateJourneyRouteOnce
  \/ \E q \in RouteRequests : HomeRouteResolve(q)
  \/ \E q \in RouteRequests : HomeRouteReject(q)
  \/ StartJourneyOnce
  \/ HandleEndJourney
  \/ \E star \in 1..MaxStar : SetOverallRating(star)
  \/ HandleSubmitJourneyRating
  \/ \E i \in 1..MaxSegments : SubmitFeedbackResolve(i)
  \/ \E i \in 1..MaxSegments : SubmitFeedbackReject(i)
  \/ HeatmapResolve
  \/ HeatmapReject
  \/ RatingResetFires
  \/ ErrorTimeoutFires

SpecRating == InitHome /\ [][NextRating]_vars

\* ------------------------------------------------- monitor and SOS together
\* Route calculation with its monitor interval next to the SOS handlers of
\* both builds.
NextTimers ==
  \/ \E c \in Fixes : GeolocationSuccess(c)
  \/ \E c \in Coords : SetEnd(c)
  \/ HandleCalculateRoute
  \/ \E q \in RouteRequests : \E coords \in RouteCoordsFor(q) :
       CalculateRouteResolve(q, coords)
  \/ \E q \in RouteRequests : CalculateRouteReject(q)
  \/ HandleActivateSOSLocal
  \/ HandleDeactivateSOSLocal
  \/ ActivateSOSOnce
  \/ \E q \in ActivateRequests : ActivateSOSResolve(q)
  \/ \E iv \in SosIntervals : SosTick(iv)
  \/ \E q \in ServerTokens : SosGeoError(q)
  \/ DeactivateSOSOnce
  \/ \E q \in ServerTokens : DeactivateSOSResolve(q)
  \/ Unmount

SpecTimers == (InitHome \/ InitLegacy) /\ [][NextTimers]_vars

\* ----------------------------------------------------------- Guardian page
\* The SOS status service: the status it reports for a token, "error" being
\* its TokenNotFound rejection.
ServerStatus(token) ==
  IF token \in serverLive THEN "live"
  ELSE IF token \in serverEnded THEN "ended"
  ELSE "error"

\* A new getGuardianStatus(token) call; fresh records whether the owner's
\* deactivation of the token had completed when the call was made.
NewPoll(token) ==
  [token |-> token, answer |-> "pending",
   fresh |-> token \in deactivatedTokens]

\* The Guardian page is opened on /guardian/<token>: the effect calls
\* fetchStatus() once and starts the 3-second interval.
GuardianMount(token) ==
  /\ ~gMounted
  /\ gToken = NULL
  /\ token \in serverLive \cup serverEnded
  /\ gMounted' = TRUE
  /\ gToken' = token
  /\ gIntervals' = gIntervals \cup {token}
  /\ gPolls' = Add(gPolls, NewPoll(token))
  /\ UNCHANGED activationAlertShown
  /\ UNCHANGED <<variant, mounted, currentLocation, nextIntervalId, navVars,
                 sosVars, gStatus, gError, gLoading, gFreshAnswered, gHealed>>

\* The token of the URL changes while the page stays open: the cleanup of
\* the effect clears the interval of the old token, and the effect runs again
\* with the new one.  status, error and loading keep their values.
GuardianTokenChange(token) ==
  /\ gMounted
  /\ token # gToken
  /\ token \in serverLive \cup serverEnded
  /\ Count(gPolls) < MaxInFlight
  /\ gToken' = token
  /\ gIntervals' = (gIntervals \ {gToken}) \cup {token}
  /\ gPolls' = Add(gPolls, NewPoll(token))
  /\ gFreshAnswered' = FALSE
  /\ UNCHANGED activationAlertShown
  /\ UNCHANGED <<variant, mounted, currentLocation, nextIntervalId, navVars,
                 sosVars, gMounted, gStatus, gError, gLoading, gHealed>>

\* One firing of a live poll interval, with a fetchStatus that also pushes a
\* location for the token.
GuardianTickPushesLocation(token) ==
  /\ token \in gIntervals
  /\ Count(gPolls) < MaxInFlight
  /\ gPolls' = Add(gPolls, NewPoll(token))
  /\ locationUpdates' =
       Add(locationUpdates, [token |-> token, lat |-> 1])
  /\ UNCHANGED activationAlertShown
  /\ UNCHANGED <<variant, mounted, currentLocation, nextIntervalId, navVars,
                 sosStateVars, activateRequests, deactivateRequests,
                 geoRequests, serverVars, sosAuxVars, gMounted, gToken,
                 gStatus, gError,
                 gLoading, gIntervals, gFreshAnswered, gHealed>>

\* One firing of a live poll interval: fetchStatus() issues a status read
\* for the token of its closure.
GuardianTick(token) ==
  /\ token \in gIntervals
  /\ Count(gPolls) < MaxInFlight
  /\ gPolls' = Add(gPolls, NewPoll(token))
  /\ UNCHANGED activationAlertShown
  /\ UNCHANGED <<variant, mounted, currentLocation, nextIntervalId, navVars,
                 sosVars, gMounted, gToken, gStatus, gError, gLoading,
                 gIntervals, gFreshAnswered, gHealed>>

\* The status service answers an outstanding read with the status it holds.
GuardianPollAnswer(q) ==
  /\ BagIn(q, gPolls)
  /\ q.answer = "pending"
  /\ gPolls' =
       Add(Remove(gPolls, q), [q EXCEPT !.answer = ServerStatus(q.token)])
  /\ UNCHANGED activationAlertShown
  /\ UNCHANGED <<variant, mounted, currentLocation, nextIntervalId, navVars,
                 sosVars, gMounted, gToken, gStatus, gError, gLoading,
                 gIntervals, gFreshAnswered, gHealed>>

\* An outstanding read fails on the network.
GuardianPollFail(q) ==
  /\ BagIn(q, gPolls)
  /\ q.answer = "pending"
  /\ gPolls' = Add(Remove(gPolls, q), [q EXCEPT !.answer = "error"])
  /\ UNCHANGED activationAlertShown
  /\ UNCHANGED <<variant, mounted, currentLocation, nextIntervalId, navVars,
                 sosVars, gMounted, gToken, gStatus, gError, gLoading,
                 gIntervals, gFreshAnswered, gHealed>>

\* getGuardianStatus completed, with a fetchStatus that leaves the error of
\* an earlier failure in place.
GuardianPollDoneKeepsError(q) ==
  /\ BagIn(q, gPolls)
  /\ q.answer # "pending"
  /\ gPolls' = Remove(gPolls, q)
  /\ gStatus' = IF gMounted /\ q.answer # "error"
                  THEN q.answer ELSE gStatus
  /\ gError' = IF ~gMounted THEN gError
               ELSE IF q.answer # "error" THEN gError
               ELSE "Failed to fetch status"
  /\ gLoading' = IF gMounted THEN FALSE ELSE gLoading
  /\ gFreshAnswered' =
       (gFreshAnswered
          \/ (gMounted /\ q.token = gToken /\ q.fresh /\ q.answer # "error"))
  /\ gHealed' =
       (gHealed \/ (gMounted /\ gError # NULL /\ q.answer # "error"))
  /\ UNCHANGED activationAlertShown
  /\ UNCHANGED <<variant, mounted, currentLocation, nextIntervalId, navVars,
                 sosVars, gMounted, gToken, gIntervals>>

\* getGuardianStatus completed in fetchStatus: setStatus(data) and
\* setError(null), or setError(...) in the catch block; finally
\* setLoading(false).  Setters of a closed screen are no-ops.
GuardianPollDone(q) ==
  /\ BagIn(q, gPolls)
  /\ q.answer # "pending"
  /\ gPolls' = Remove(gPolls, q)
  /\ gStatus' = IF gMounted /\ q.answer # "error"
                  THEN q.answer ELSE gStatus
  /\ gError' = IF ~gMounted THEN gError
               ELSE IF q.answer # "error" THEN NULL
               ELSE "Failed to fetch status"
  /\ gLoading' = IF gMounted THEN FALSE ELSE gLoading
  /\ gFreshAnswered' =
       (gFreshAnswered
          \/ (gMounted /\ q.token = gToken /\ q.fresh /\ q.answer # "error"))
  /\ gHealed' =
       (gHealed \/ (gMounted /\ gError # NULL /\ q.answer # "error"))
  /\ UNCHANGED activationAlertShown
  /\ UNCHANGED <<variant, mounted, currentLocation, nextIntervalId, navVars,
                 sosVars, gMounted, gToken, gIntervals>>

\* The Guardian page is closed: the effect's cleanup clears the interval.
GuardianUnmount ==
  /\ gMounted
  /\ gMounted' = FALSE
  /\ gIntervals' = gIntervals \ {gToken}
  /\ UNCHANGED activationAlertShown
  /\ UNCHANGED <<variant, mounted, currentLocation, nextIntervalId, navVars,
                 sosVars, gToken, gStatus, gError, gLoading, gPolls,
                 gFreshAnswered, gHealed>>

\* What the Guardian page renders: the loading spinner, the "unavailable"
\* card, or the dashboard with the status.
GuardianDisplay ==
  IF gLoading THEN "loading"
  ELSE IF gError # NULL \/ gStatus = NULL THEN "unavailable"
  ELSE gStatus

NextGuardian ==
  \/ \E c \in Fixes : GeolocationSuccess(c)
  \/ HandleActivateSOS
  \/ \E q \in ActivateRequests : ActivateSOSResolve(q)
  \/ \E q \in ActivateRequests : ActivateSOSReject(q)
  \/ HandleDeactivateSOS
  \/ \E q \in ServerTokens : DeactivateSOSResolve(q)
  \/ \E q \in ServerTokens : DeactivateSOSReject(q)
  \/ \E token \in ServerTokens : GuardianMount(token)
  \/ \E token \in ServerTokens : GuardianTokenChange(token)
  \/ \E token \in ServerTokens : GuardianTick(token)
  \/ \E q \in Polls : GuardianPollAnswer(q)
  \/ \E q \in Polls : GuardianPollFail(q)
  \/ \E q \in Polls : GuardianPollDone(q)
  \/ GuardianUnmount

SpecGuardian == InitHome /\ [][NextGuardian]_vars

\* A firing of the poll interval that finds no status read outstanding.
GuardianTickOnce(token) ==
  /\ Count(gPolls) = 0
  /\ GuardianTick(token)

\* The Guardian page observed while the owner uses the SOS button without
\* pressing it again before the previous press has completed.
NextGuardianPage ==
  \/ \E c \in Fixes : GeolocationSuccess(c)
  \/ ActivateSOSOnce
  \/ \E q \in ActivateRequests : ActivateSOSResolve(q)
  \/ DeactivateSOSOnce
  \/ \E q \in ServerTokens : DeactivateSOSResolve(q)
  \/ \E token \in ServerTokens : GuardianMount(token)
  \/ \E token \in ServerTokens : GuardianTokenChange(token)
  \/ \E token \in ServerTokens : GuardianTickOnce(token)
  \/ \E q \in Polls : GuardianPollAnswer(q)
  \/ \E q \in Polls : GuardianPollFail(q)
  \/ \E q \in Polls : GuardianPollDone(q)
  \/ GuardianUnmount

SpecGuardianPage == InitHome /\ [][NextGuardianPage]_vars

\* ------------------------------------------------------------------ claims

\* C1: while Home is mounted, a safety-monitor interval is live if and only if
\* the stored route is non-empty.
C1_MonitorLiveIffRoute ==
  mounted => ((monitorIntervals # {}) <=> (Len(route) > 0))

\* C2: at most one checkSafetyStatus request is outstanding at any time.
C2_AtMostOneSafetyCheck == Count(safetyChecks) <= 1

\* C3: a safety-check response that completes when the stored route is no
\* longer the route the request was issued for leaves alertResponse as it is.
C3_StaleCheckDiscarded ==
  [][\A q \in Pending(safetyChecks) :
       (/\ safetyChecks' = Remove(safetyChecks, q)
        /\ q.planned_route_coords # route)
         => alertResponse' = alertResponse]_vars

\* C4: a monitor tick at which a current position is known and the stored
\* route is non-empty issues exactly one safety-check request, and the request
\* carries the position that is current at the tick.
C4_TickUsesCurrentPosition ==
  [][(/\ monitorTicks' # monitorTicks
      /\ mounted
      /\ currentLocation # NoLoc
      /\ Len(route) > 0)
       => \E q \in Pending(safetyChecks') :
            /\ safetyChecks' = Add(safetyChecks, q)
            /\ q.current = currentLocation]_vars

\* C5: when a handleDeactivateSOS call completes, resolved or rejected, the
\* broadcast interval of sosIntervalRef is no longer live, sosActive is false
\* and sosToken is null.
C5_DeactivateAlwaysDeactivates ==
  [][(mounted /\ Count(deactivateRequests') < Count(deactivateRequests))
       => (/\ ~sosActive'
           /\ sosToken' = NULL
           /\ \A iv \in sosIntervals' : iv.id # sosIntervalRef')]_vars

\* C6: no updateLocation push is issued with a token whose deactivation has
\* completed.
C6_NoPushAfterDeactivation ==
  [][\A q \in Pending(locationUpdates') :
       locationUpdates' = Add(locationUpdates, q)
         => q.token \notin deactivatedTokens]_vars

\* C7: every live SOS broadcast interval is the one sosIntervalRef holds.
C7_LiveIntervalIsRef == \A iv \in sosIntervals : iv.id = sosIntervalRef

\* C8: the SOS session is marked active exactly when it holds a non-empty
\* token.
C8_ActiveIffToken == sosActive <=> (sosToken # NULL /\ sosToken # "")

\* C8 witness: a session that was activated again after a completed
\* deactivation.
C8_Witness ==
  variant = "Home" /\ sosActive /\ sosToken # NULL /\ deactivatedTokens # {}

\* C9: every activation yields a token different from all tokens issued
\* before it.
C9_TokensNeverReused ==
  \A i, j \in 1..Len(issuedTokens) :
    i # j => issuedTokens[i] # issuedTokens[j]

\* C10: once the deactivation of the polled token has completed and a poll
\* issued after it has been answered, the Guardian page never shows "live".
C10_NoStaleLive == gFreshAnswered => GuardianDisplay # "live"

\* C11: the poll interval of the Guardian page is live exactly while the page
\* is open, for the token of the URL and whatever error is displayed, and a
\* poll that succeeds while the page is open clears the error and stores the
\* new snapshot.
C11_PollLoopSelfHeals ==
  /\ [](gIntervals = IF gMounted THEN {gToken} ELSE {})
  /\ [][\A q \in Pending(gPolls) :
         (/\ gPolls' = Remove(gPolls, q)
          /\ gMounted
          /\ q.answer \notin {"pending", "error"})
           => (gError' = NULL /\ gStatus' = q.answer)]_vars

\* C11 witness: the page is open after a token change and after a successful
\* poll replaced a displayed error; its interval is live.
C11_Witness ==
  /\ gMounted
  /\ gHealed
  /\ gError = NULL
  /\ gStatus # NULL
  /\ gToken = ServerToken(2)
  /\ gIntervals = {gToken}

\* C12: a step of the Guardian page issues no request but a status read for
\* the token of the URL, and leaves the SOS session (active flag, token,
\* intervals, requests, position, the service's sessions) and the rest of
\* Home unchanged.
C12_GuardianNeverWrites ==
  [][guardianVars' # guardianVars
       => /\ UNCHANGED <<variant, mounted, currentLocation, nextIntervalId,
                         navVars, sosVars>>
          /\ \A q \in Pending(gPolls') :
               gPolls' = Add(gPolls, q) => q.token = gToken']_vars

\* C12 witness: the Guardian page has displayed the live session of the
\* owner and has another status read outstanding.
C12_Witness ==
  /\ sosActive
  /\ sosToken = gToken
  /\ GuardianDisplay = "live"
  /\ gPolls # EmptyBag

\* C13: while no current location is known, no step activates SOS: sosActive
\* and sosToken keep their values, no token is issued, no activation request
\* and no distress message is sent, and no broadcast interval is started.
C13_NoLocationNoActivation ==
  [][currentLocation = NoLoc
       => UNCHANGED <<sosActive, sosToken, issuedTokens, activateRequests,
                      distressMessages, sosIntervals, sosIntervalRef>>]_vars

\* C13 witness: handleActivateSOS has run without a known location (it has
\* shown its alert) and SOS is not active.
C13_Witness ==
  /\ locationAlertShown
  /\ currentLocation = NoLoc
  /\ ~sosActive
  /\ sosToken = NULL
  /\ issuedTokens = <<>>
  /\ distressMessages = <<>>

\* C14: a step that makes SOS active sends exactly one distress message, and
\* no step sends one while SOS stays active.
C14_OneDistressMessagePerActivation ==
  [][/\ (~sosActive /\ sosActive')
          => Len(distressMessages') = Len(distressMessages) + 1
     /\ (sosActive /\ sosActive')
          => distressMessages' = distressMessages]_vars

\* C15: a broadcast tick whose position read fails, and a location push that
\* completes (rejected or resolved), leave sosActive, sosToken and the
\* broadcast intervals as they are.
C15_FailedPushKeepsBroadcast ==
  [][(\/ /\ Count(geoRequests') < Count(geoRequests)
         /\ locationUpdates' = locationUpdates
      \/ Count(locationUpdates') < Count(locationUpdates))
       => UNCHANGED <<sosActive, sosToken, sosIntervals, sosIntervalRef>>]_vars

\* C15 witness: after a rejected push the session is still active, its
\* broadcast interval is live and a tick has a position read outstanding.
C15_Witness ==
  /\ mounted
  /\ pushFailed
  /\ sosActive
  /\ [id |-> sosIntervalRef, token |-> sosToken] \in sosIntervals
  /\ geoRequests # EmptyBag

\* C16: while Home stays mounted, a step that starts, restarts or stops
\* monitoring or changes the route leaves the broadcast intervals and their
\* ref as they are, and a step that activates or deactivates SOS leaves the
\* monitor intervals and their ref as they are.
C16_TimersIndependent ==
  [][mounted'
       => /\ (\/ monitorIntervals' # monitorIntervals
              \/ monitoringIntervalRef' # monitoringIntervalRef
              \/ route' # route)
               => UNCHANGED <<sosIntervals, sosIntervalRef>>
          /\ (sosActive' # sosActive \/ sosToken' # sosToken)
               => UNCHANGED <<monitorIntervals, monitoringIntervalRef>>]_vars

\* C16 witness: monitoring has been restarted and its interval is live while
\* SOS is active again after a deactivation.
C16_Witness ==
  /\ mounted
  /\ monitoringIntervalRef = 2
  /\ [id |-> 2, routeCoords |-> route, currentLocation |-> currentLocation]
       \in monitorIntervals
  /\ sosActive
  /\ deactivatedTokens # {}

\* C17: a key press that activates SOS comes at most one 2-second window
\* after the press that started the count.
C17_ThreeInOneWindow ==
  [][(/\ spacebarTimer' = SpacebarWindow
      /\ spacebarPresses' # spacebarPresses
      /\ ~sosActive
      /\ sosActive')
       => firstPressAge <= SpacebarWindow]_vars

\* C18: the third key press of a count that started at most one window ago,
\* made while SOS is inactive and a current location is known, activates SOS
\* with a token.
C18_ThirdPressActivates ==
  [][(/\ spacebarTimer' = SpacebarWindow
      /\ spacebarPresses = 2
      /\ spacebarPresses' # spacebarPresses
      /\ firstPressAge <= SpacebarWindow
      /\ ~sosActive
      /\ currentLocation # NoLoc)
       => (sosActive' /\ sosToken' # NULL)]_vars

\* C19: handleSubmitJourneyRating submits strictly sequentially: at most one
\* submitFeedback call is outstanding at any time, the calls of a batch are
\* made in the order of its segments, and the call for a segment is made
\* only after the calls for all segments before it have succeeded.
C19_SequentialSubmission ==
  /\ OutstandingFeedback <= 1
  /\ IsPrefix(feedbackIssued, batchSegments)
  /\ IsPrefix(feedbackSucceeded, feedbackIssued)
  /\ Len(feedbackIssued) <= Len(feedbackSucceeded) + 1

\* C19 witness: a batch over segments that are not in ascending order has
\* its second call outstanding after its first call succeeded.
C19_Witness ==
  /\ batchResult = "running"
  /\ Len(batchSegments) >= 2
  /\ batchSegments[1] > batchSegments[2]
  /\ feedbackSucceeded = <<batchSegments[1]>>
  /\ feedbackIssued = <<batchSegments[1], batchSegments[2]>>
  /\ OutstandingFeedback = 1

\* C20: when the k-th submitFeedback call of a batch fails the batch is
\* over: exactly its first k-1 segments have been rated, and no call was
\* made, or is outstanding, for a segment after the k-th.
C20_PartialBatchKeepsPrefix ==
  batchResult = "failed" =>
    LET k == Len(feedbackIssued)
    IN /\ k >= 1
       /\ feedbackIssued = SubSeq(batchSegments, 1, k)
       /\ feedbackSucceeded = SubSeq(batchSegments, 1, k - 1)
       /\ OutstandingFeedback = 0
       /\ ratingBatches = EmptyBag

\* C20 witness: the second of three calls failed; the first segment is
\* rated, the third was never attempted.
C20_Witness ==
  /\ batchResult = "failed"
  /\ Len(batchSegments) = MaxSegments
  /\ Len(feedbackIssued) = MaxSegments - 1
  /\ Len(feedbackSucceeded) = MaxSegments - 2
  /\ Len(feedbackSucceeded) >= 1
  /\ ratingBatches = EmptyBag
  /\ ~ratingLoading

\* The numbers a text passed to setError names: every such text is a literal
\* without a number in it.
NumbersIn(msg) ==
  CASE msg = "Failed to submit rating. Please try again." -> {}
    [] msg = "Failed to calculate route" -> {}
    [] msg = "Backend server is not reachable" -> {}
    [] OTHER -> {}

\* C21: in the step in which a submitFeedback call of a batch fails, the
\* error shown names the number of segments rated before the failure.
C21_FailureReportsCount ==
  [][(batchResult' = "failed" /\ ratingBatches' # ratingBatches /\ mounted)
       => Len(feedbackSucceeded) \in NumbersIn(error')]_vars

\* The elements of a sequence.
Range(sq) == {sq[i] : i \in DOMAIN sq}

\* C22: after a batch has fully succeeded, and until the delayed reset of the
\* journey has fired, no submitFeedback call is made for a segment of that
\* batch.
C22_RatedAtMostOnce ==
  [][(/\ batchResult = "done"
      /\ ratingResets > 0
      /\ feedbackIssued' # feedbackIssued)
       => Range(feedbackIssued') \cap Range(batchSegments) = {}]_vars

\* The running calls that are past their loop: each of them has one
\* getSafetyHeatmap call outstanding.
HeatmapRequests ==
  {b \in Pending(ratingBatches) : b.next > Len(b.segments)}

\* C23: getSafetyHeatmap is called for a batch exactly when every
\* submitFeedback call of the batch has succeeded: it is outstanding only
\* then, it becomes outstanding in the step in which the last call succeeds,
\* the heatmap is replaced only for such a batch, and the step in which a
\* call fails neither calls getSafetyHeatmap nor replaces the heatmap.
C23_RefreshIffAllSucceeded ==
  /\ [](HeatmapRequests # {} => feedbackSucceeded = batchSegments)
  /\ [][/\ (feedbackSucceeded' # feedbackSucceeded
              /\ feedbackSucceeded' = batchSegments')
             => HeatmapRequests' # {}
        /\ heatmapRefreshes' # heatmapRefreshes
             => (feedbackSucceeded = batchSegments /\ batchResult' = "done")
        /\ (batchResult' = "failed" /\ ratingBatches' # ratingBatches)
             => (HeatmapRequests' = {}
                   /\ heatmapRefreshes' = heatmapRefreshes)]_vars

\* C23 witness: a first batch succeeded and the heatmap was replaced once; a
\* second batch failed at its second call and the heatmap was left alone.
C23_Witness ==
  /\ batchesStarted = 2
  /\ heatmapRefreshes = 1
  /\ batchResult = "failed"
  /\ Len(feedbackSucceeded) = 1
  /\ Len(batchSegments) >= 2
  /\ ratingBatches = EmptyBag

\* C24: the step in which a route request resolves successfully leaves in
\* journeySegments the segments of that answer, and the empty list when the
\* answer carries none.
C24_SegmentsOfLatestRoute ==
  [][(Count(routeRequests') < Count(routeRequests)
        /\ routeInfo' # None /\ mounted)
       => journeySegments' =
            IF answerSegments' = None THEN <<>> ELSE answerSegments'[1]]_vars

\* C25: the step in which a route request completes either stores a route of
\* two or more waypoints or shows an error.
C25_RouteOrError ==
  [][(Count(routeRequests') < Count(routeRequests) /\ mounted)
       => (Len(route') >= 2 \/ error' # NULL)]_vars

\* ------------------------------------------------ health probe and routing
\* Get Route of Home.tsx pressed in a session in which no route answer has
\* carried segments yet.
CalculateRouteUntilSegments ==
  /\ answerSegments = None
  /\ HomeCalculateRoute

\* Both builds: the mount-time health probe, the endpoints, and the route
\* requests with their answers.
NextRouting ==
  \/ HealthCheckResolve
  \/ HealthCheckReject
  \/ \E c \in Coords : SetStart(c)
  \/ \E c \in Coords : SetEnd(c)
  \/ HandleCalculateRoute
  \/ \E q \in RouteRequests : \E coords \in RouteCoordsFor(q) :
       CalculateRouteResolve(q, coords)
  \/ \E q \in RouteRequests : CalculateRouteReject(q)
  \/ CalculateRouteUntilSegments
  \/ \E q \in RouteRequests : HomeRouteResolve(q)
  \/ \E q \in RouteRequests : HomeRouteReject(q)
  \/ Unmount

SpecRouting == (InitHome \/ InitLegacy) /\ [][NextRouting]_vars

C27_OnlyCurrentAnswerApplied ==
  /\ [](Count(routeRequests) <= 1)
  /\ [][\A q \in Pending(routeRequests) :
          (/\ routeRequests' = Remove(routeRequests, q)
           /\ mounted
           /\ routeInfo' # None
           /\ (route' # route \/ routeInfo' # routeInfo))
            => (q.start = start /\ q.end = end)]_vars

\* C28: the step in which a route request fails shows an error and leaves
\* the stored route, the route info and the monitor timer as they were.
C28_FailureKeepsPriorState ==
  [][\A q \in Pending(routeRequests) :
       (/\ routeRequests' = Remove(routeRequests, q)
        /\ mounted
        /\ routeInfo' = None
        /\ loading /\ ~loading')
         => /\ error' # NULL
            /\ UNCHANGED <<route, routeInfo, monitorIntervals,
                           monitoringIntervalRef>>]_vars

\* -------------------------------------------------- alert banner (part_002)
\* "Reroute Now" of the alert banner, shown when the stored alert has
\* action_required: setAlertResponse(null), and a comment where a reroute
\* would be triggered.
RerouteNow ==
  /\ mounted
  /\ variant = "part_002"
  /\ alertResponse # None
  /\ alertResponse[1].alert_type # ""
  /\ alertResponse[1].action_required
  /\ alertResponse' = None
  /\ activationAlertShown' = FALSE
  /\ UNCHANGED <<lastCheckAnswer, variant, segmentVars,
                 voiceVars, mounted, currentLocation,
                 nextIntervalId, mountVars,
                 endpointVars, routeVars, monitoringIntervalRef,
                 monitorIntervals, monitorTicks, safetyChecks, sosVars,
                 ratingVars, guardianVars>>

\* A monitored route whose alerts the user answers with "Reroute Now" only.
NextReroute ==
  \/ \E c \in Fixes : GeolocationSuccess(c)
  \/ \E c \in Coords : SetEnd(c)
  \/ HandleCalculateRoute
  \/ \E q \in RouteRequests : \E coords \in RouteCoordsFor(q) :
       CalculateRouteResolve(q, coords)
  \/ \E q \in RouteRequests : CalculateRouteReject(q)
  \/ \E iv \in MonitorIntervals : MonitorTick(iv)
  \/ \E q \in SafetyChecks : \E alert \in AlertResponses :
       CheckSafetyResolve(q, alert)
  \/ \E q \in SafetyChecks : CheckSafetyReject(q)
  \/ RerouteNow

SpecReroute == InitLegacy /\ [][NextReroute]_vars

\* C29: the step in which "Reroute Now" is pressed requests a route, and a
\* step that clears the stored alert replaces the stored route.
C29_RerouteReplacesRoute ==
  [][(/\ mounted
      /\ alertResponse # None
      /\ alertResponse' = None)
       => (\/ Count(routeRequests') > Count(routeRequests)
           \/ route' # route)]_vars

\* C30: in the step in which a safety check settles, an answer with a
\* non-empty alert_type becomes the stored alert, any other outcome leaves
\* the stored alert as it is, and whatever the answer's action_required the
\* stored route, the route info and the route requests do not change.
C30_AlertStoredRouteKept ==
  [][(Count(safetyChecks') < Count(safetyChecks) /\ mounted)
       => /\ alertResponse' =
               IF lastCheckAnswer' # None
                    /\ lastCheckAnswer'[1].alert_type # ""
                 THEN lastCheckAnswer'
                 ELSE alertResponse
          /\ UNCHANGED <<route, routeInfo, routeRequests, loading, start,
                         end, monitorIntervals, monitoringIntervalRef>>]_vars

\* C30 witness: an alert that requires action is stored, the answer settled
\* last had no alert_type, and the route is still monitored.
C30_Witness ==
  /\ mounted
  /\ alertResponse # None
  /\ alertResponse[1].alert_type # ""
  /\ alertResponse[1].action_required
  /\ lastCheckAnswer # None
  /\ lastCheckAnswer[1].alert_type = ""
  /\ lastCheckAnswer[1].action_required
  /\ Len(route) >= 2
  /\ routeRequests = EmptyBag
  /\ monitorIntervals # {}

\* C31: in the step in which a safety check fails, the stored route, the
\* route info, the stored alert, the endpoints and the monitor interval do
\* not change, no route request is issued, and the interval of the ref is
\* still live with a position and a route, so that its next firing checks
\* again.
C31_FailedCheckRetried ==
  [][(/\ Count(safetyChecks') < Count(safetyChecks)
      /\ lastCheckAnswer' = None
      /\ mounted)
       => /\ UNCHANGED <<route, routeInfo, alertResponse, routeRequests,
                         loading, error, start, end, monitorIntervals,
                         monitoringIntervalRef>>
          /\ \E iv \in monitorIntervals' :
               /\ iv.id = monitoringIntervalRef'
               /\ iv.currentLocation # NoLoc
               /\ Len(iv.routeCoords) > 0]_vars

\* C31 witness: the only interval ever created has fired twice with a known
\* position, its first check failed and the check of its second firing is
\* outstanding.
C31_Witness ==
  /\ mounted
  /\ nextIntervalId = 2
  /\ \A iv \in monitorIntervals :
       iv.id = monitoringIntervalRef /\ iv.currentLocation # NoLoc
  /\ monitorIntervals # {}
  /\ monitorTicks = 2
  /\ Count(safetyChecks) = 1
  /\ lastCheckAnswer = None
  /\ alertResponse = None
  /\ Len(route) >= 2

\* ------------------------------------------- voice announcer and teardown
\* Routes are calculated one after the other while the speech engine works
\* through its queue, and the screen may be left at any moment.
NextNavigation ==
  \/ \E c \in Fixes : GeolocationSuccess(c)
  \/ \E c \in Coords : SetEnd(c)
  \/ HandleCalculateRoute
  \/ \E q \in RouteRequests : \E coords \in RouteCoordsFor(q) :
       CalculateRouteResolve(q, coords)
  \/ \E q \in RouteRequests : CalculateRouteReject(q)
  \/ UtteranceEnds
  \/ Unmount

SpecNavigation == InitLegacy /\ [][NextNavigation]_vars

\* C32: every step that changes the queue of the speech engine either
\* appends announcements behind the ones pending (none of them is dropped or
\* interrupted) or finishes the utterance at its head.
C32_AnnouncementsInOrder ==
  [][speechQueue' # speechQueue
       => (\/ IsPrefix(speechQueue, speechQueue')
           \/ speechQueue' = Tail(speechQueue))]_vars

\* C33: once Home is unmounted no monitor interval, no broadcast interval,
\* no key-trigger timeout and no message-clearing or reset timeout is live,
\* and the queue of the speech engine is empty.
C33_NothingLiveAfterUnmount ==
  ~mounted => /\ monitorIntervals = {}
              /\ sosIntervals = {}
              /\ spacebarTimer = NoTimer
              /\ errorTimers = 0
              /\ ratingResets = 0
              /\ speechQueue = <<>>

\* C34: at most one monitor interval is live, it is the one the ref holds,
\* and the step that starts monitoring leaves exactly the new interval live,
\* with the route of the answer that started it.
C34_OneMonitorInterval ==
  /\ [](/\ Cardinality(monitorIntervals) <= 1
        /\ \A iv \in monitorIntervals : iv.id = monitoringIntervalRef)
  /\ [][nextIntervalId' # nextIntervalId
          => /\ Cardinality(monitorIntervals') = 1
             /\ \A iv \in monitorIntervals' :
                  /\ iv.id = nextIntervalId
                  /\ iv.id \notin {old.id : old \in monitorIntervals}
                  /\ mounted => iv.routeCoords = route']_vars

\* C34 witness: monitoring has been started twice while Home was mounted and
\* the live interval checks the second route.
C34_Witness ==
  /\ mounted
  /\ nextIntervalId = 3
  /\ monitoringIntervalRef = 2
  /\ Cardinality(monitorIntervals) = 1
  /\ \A iv \in monitorIntervals : iv.routeCoords = route
  /\ Len(route) >= 1

\* ------------------------------------------------ segment rating (Home.tsx)
\* A running handleSubmitRating call: the segment and rating of its closure,
\* and the await it is at.
SegmentRatings ==
  [segment_id : 1..MaxSegments, rating : 1..MaxStar,
   stage : {"submitFeedback", "getSafetyHeatmap"}]

\* handleSegmentClick on the rate tab: the segment is selected and the form
\* is cleared.
HandleSegmentClick(segmentId) ==
  /\ mounted
  /\ variant = "Home"
  /\ selectedSegmentId' = segmentId
  /\ selectedRating' = 0
  /\ ratingSuccess' = FALSE
  /\ activationAlertShown' = FALSE
  /\ UNCHANGED <<variant, ratedJourney,
                 voiceVars, mounted, currentLocation, nextIntervalId,
                 mountVars, endpointVars, routeVars, monitorVars,
                 journeySegments, journeyActive, showJourneyRating,
                 overallRating, ratingLoading, ratingBatches,
                 heatmapRefreshes, ratingResets, errorTimers, batchesStarted,
                 batchSegments, feedbackIssued, feedbackSucceeded,
                 batchResult, answerSegments, segmentRatings, formResets,
                 sosVars, guardianVars>>

\* A star of the rating form of the selected segment: setSelectedRating.
SetSelectedRating(star) ==
  /\ mounted
  /\ variant = "Home"
  /\ selectedSegmentId # NoSegment
  /\ selectedRating # star
  /\ selectedRating' = star
  /\ activationAlertShown' = FALSE
  /\ UNCHANGED <<variant, voiceVars, mounted, currentLocation, nextIntervalId,
                 mountVars, endpointVars, routeVars, monitorVars, ratingVars,
                 selectedSegmentId, segmentRatings, formResets, sosVars,
                 guardianVars>>

\* The validation branch the three handlers share: setError(message) and the
\* timeout that clears the error.
RejectInput(message) ==
  /\ errorTimers < MaxPending
  /\ error' = message
  /\ errorTimers' = errorTimers + 1

\* handleCalculateRoute of Home.tsx called without the check of its input.
HomeCalculateRouteCalledUnvalidated ==
  /\ mounted
  /\ variant = "Home"
  /\ Count(routeRequests) < MaxInFlight
  /\ loading' = TRUE
  /\ error' = NULL
  /\ routeRequests' = Add(routeRequests,
       [start |-> start, end |-> end,
        currentLocation |-> currentLocation])
  /\ activationAlertShown' = FALSE
  /\ UNCHANGED <<variant, voiceVars, segmentVars, mounted, currentLocation,
                 nextIntervalId, mountVars, endpointVars, route, routeInfo,
                 monitorVars, ratingVars, sosVars, guardianVars>>

\* handleCalculateRoute of Home.tsx called whatever its button shows, up to
\* its await: without start or end the input is rejected, else
\* setLoading(true), setError(null) and the fetch of /api/route.
HomeCalculateRouteCalled ==
  /\ mounted
  /\ variant = "Home"
  /\ IF start = NoLoc \/ end = NoLoc
       THEN /\ RejectInput("Please set both start and end points")
            /\ UNCHANGED <<loading, routeRequests>>
       ELSE /\ Count(routeRequests) < MaxInFlight
            /\ loading' = TRUE
            /\ error' = NULL
            /\ routeRequests' = Add(routeRequests,
                 [start |-> start, end |-> end,
                  currentLocation |-> currentLocation])
            /\ UNCHANGED errorTimers
  /\ activationAlertShown' = FALSE
  /\ UNCHANGED <<variant, ratedJourney,
                 voiceVars, segmentVars, mounted, currentLocation,
                 nextIntervalId, mountVars, endpointVars, route, routeInfo,
                 monitorVars, journeySegments, journeyActive,
                 showJourneyRating, overallRating, ratingLoading,
                 ratingSuccess, ratingBatches, heatmapRefreshes, ratingResets,
                 batchesStarted, batchSegments, feedbackIssued,
                 feedbackSucceeded, batchResult, answerSegments, sosVars,
                 guardianVars>>

\* handleSubmitJourneyRating called whatever its button shows, up to its
\* first await: a rating of 0 is rejected, else the batch starts.
SubmitJourneyRatingCalled ==
  /\ mounted
  /\ variant = "Home"
  /\ IF overallRating = 0
       THEN /\ RejectInput("Please select a rating")
            /\ UNCHANGED <<ratingLoading, ratingBatches, batchesStarted,
                           batchSegments, feedbackIssued, feedbackSucceeded,
                           batchResult>>
       ELSE /\ StartRatingBatchUnguarded
            /\ UNCHANGED <<error, errorTimers>>
  /\ activationAlertShown' = FALSE
  /\ UNCHANGED <<variant, ratedJourney,
                 voiceVars, segmentVars, mounted, currentLocation,
                 nextIntervalId, mountVars, endpointVars, route, routeInfo,
                 loading, routeRequests, monitorVars, journeySegments,
                 journeyActive, showJourneyRating, overallRating,
                 ratingSuccess, heatmapRefreshes, ratingResets,
                 answerSegments, sosVars, guardianVars>>

\* handleSubmitRating called whatever its button shows, up to its first
\* await: without a selected segment or with a rating of 0 the input is
\* rejected, else setRatingLoading(true) and submitFeedback of the segment.
SubmitRatingCalled ==
  /\ mounted
  /\ variant = "Home"
  /\ IF selectedSegmentId = NoSegment \/ selectedRating = 0
       THEN /\ RejectInput("Please select a segment and rating")
            /\ UNCHANGED <<ratingLoading, segmentRatings>>
       ELSE /\ Count(segmentRatings) < MaxPending
            /\ heatmapRefreshes + Count(segmentRatings) < MaxBatches
            /\ ratingLoading' = TRUE
            /\ segmentRatings' = Add(segmentRatings,
                 [segment_id |-> selectedSegmentId, rating |-> selectedRating,
                  stage |-> "submitFeedback"])
            /\ UNCHANGED <<error, errorTimers>>
  /\ activationAlertShown' = FALSE
  /\ UNCHANGED <<variant, ratedJourney,
                 voiceVars, mounted, currentLocation, nextIntervalId,
                 mountVars, endpointVars, route, routeInfo, loading,
                 routeRequests, monitorVars, journeySegments, journeyActive,
                 showJourneyRating, overallRating, ratingSuccess,
                 ratingBatches, heatmapRefreshes, ratingResets,
                 batchesStarted, batchSegments, feedbackIssued,
                 feedbackSucceeded, batchResult, answerSegments,
                 selectedSegmentId, selectedRating, formResets, sosVars,
                 guardianVars>>

\* submitFeedback of a handleSubmitRating call resolved: setRatingSuccess,
\* then getSafetyHeatmap is called.
SubmitRatingResolve(q) ==
  /\ variant = "Home"
  /\ BagIn(q, segmentRatings)
  /\ q.stage = "submitFeedback"
  /\ segmentRatings' =
       Add(Remove(segmentRatings, q), [q EXCEPT !.stage = "getSafetyHeatmap"])
  /\ ratingSuccess' = SetState(ratingSuccess, TRUE)
  /\ activationAlertShown' = FALSE
  /\ UNCHANGED <<variant, ratedJourney,
                 voiceVars, mounted, currentLocation, nextIntervalId,
                 mountVars, endpointVars, routeVars, monitorVars,
                 journeySegments, journeyActive, showJourneyRating,
                 overallRating, ratingLoading, ratingBatches,
                 heatmapRefreshes, ratingResets, errorTimers, batchesStarted,
                 batchSegments, feedbackIssued, feedbackSucceeded,
                 batchResult, answerSegments, selectedSegmentId,
                 selectedRating, formResets, sosVars, guardianVars>>

\* getSafetyHeatmap of a handleSubmitRating call resolved: setHeatmapData,
\* the timeout that resets the form, and finally setRatingLoading(false).
SubmitRatingHeatmapResolve(q) ==
  /\ variant = "Home"
  /\ BagIn(q, segmentRatings)
  /\ q.stage = "getSafetyHeatmap"
  /\ segmentRatings' = Remove(segmentRatings, q)
  /\ heatmapRefreshes' = heatmapRefreshes + 1
  /\ formResets' = formResets + 1
  /\ ratingLoading' = SetState(ratingLoading, FALSE)
  /\ activationAlertShown' = FALSE
  /\ UNCHANGED <<variant, ratedJourney,
                 voiceVars, mounted, currentLocation, nextIntervalId,
                 mountVars, endpointVars, routeVars, monitorVars,
                 journeySegments, journeyActive, showJourneyRating,
                 overallRating, ratingSuccess, ratingBatches, ratingResets,
                 errorTimers, batchesStarted, batchSegments, feedbackIssued,
                 feedbackSucceeded, batchResult, answerSegments,
                 selectedSegmentId, selectedRating, sosVars, guardianVars>>

\* Either await of a handleSubmitRating call was rejected: the catch and
\* finally blocks.
SubmitRatingReject(q) ==
  /\ variant = "Home"
  /\ BagIn(q, segmentRatings)
  /\ segmentRatings' = Remove(segmentRatings, q)
  /\ error' = SetState(error, "Failed to submit rating")
  /\ errorTimers' = errorTimers + 1
  /\ ratingLoading' = SetState(ratingLoading, FALSE)
  /\ activationAlertShown' = FALSE
  /\ UNCHANGED <<variant, ratedJourney,
                 voiceVars, mounted, currentLocation, nextIntervalId,
                 mountVars, endpointVars, route, routeInfo, loading,
                 routeRequests, monitorVars, journeySegments, journeyActive,
                 showJourneyRating, overallRating, ratingSuccess,
                 ratingBatches, heatmapRefreshes, ratingResets,
                 batchesStarted, batchSegments, feedbackIssued,
                 feedbackSucceeded, batchResult, answerSegments,
                 selectedSegmentId, selectedRating, formResets, sosVars,
                 guardianVars>>

\* The timeout set after a successful segment rating fires: the form is
\* reset.
FormResetFires ==
  /\ formResets > 0
  /\ formResets' = formResets - 1
  /\ selectedSegmentId' = SetState(selectedSegmentId, NoSegment)
  /\ selectedRating' = SetState(selectedRating, 0)
  /\ ratingSuccess' = SetState(ratingSuccess, FALSE)
  /\ activationAlertShown' = FALSE
  /\ UNCHANGED <<variant, ratedJourney,
                 voiceVars, mounted, currentLocation, nextIntervalId,
                 mountVars, endpointVars, routeVars, monitorVars,
                 journeySegments, journeyActive, showJourneyRating,
                 overallRating, ratingLoading, ratingBatches,
                 heatmapRefreshes, ratingResets, errorTimers, batchesStarted,
                 batchSegments, feedbackIssued, feedbackSucceeded,
                 batchResult, answerSegments, segmentRatings, sosVars,
                 guardianVars>>

\* ------------------------------------------------------ input validation
\* No request is outstanding, no timeout is pending and nothing is being
\* announced.
Settled ==
  /\ routeRequests = EmptyBag
  /\ ratingBatches = EmptyBag
  /\ segmentRatings = EmptyBag
  /\ errorTimers = 0
  /\ ratingResets = 0
  /\ formResets = 0
  /\ speechQueue = <<>>

\* The route answers of the journey carry no segment or the one segment 1.
RouteAnswerShort(q) ==
  /\ HomeRouteResolve(q)
  /\ answerSegments' \in {None, Some(<<1>>)}

\* The user acts when the previous action has settled.
SetStartSettled(c) == Settled /\ SetStart(c)
SetEndSettled(c) == Settled /\ SetEnd(c)
CalculateRouteCalledSettled == Settled /\ HomeCalculateRouteCalled
StartJourneySettled == Settled /\ HandleStartJourney
EndJourneySettled == Settled /\ HandleEndJourney
SetOverallRatingSettled(star) == Settled /\ SetOverallRating(star)
SubmitJourneyRatingCalledSettled == Settled /\ SubmitJourneyRatingCalled
SegmentClickSettled(segmentId) == Settled /\ HandleSegmentClick(segmentId)
SetSelectedRatingSettled(star) == Settled /\ SetSelectedRating(star)
SubmitRatingCalledSettled == Settled /\ SubmitRatingCalled

\* The three handlers that check their input are called whatever their
\* buttons show, next to the journey from place 1 to place MaxCoord and the
\* rating of segment 1.
NextValidation ==
  \/ SetStartSettled(1)
  \/ SetEndSettled(MaxCoord)
  \/ CalculateRouteCalledSettled
  \/ \E q \in RouteRequests : RouteAnswerShort(q)
  \/ \E q \in RouteRequests : HomeRouteReject(q)
  \/ UtteranceEnds
  \/ StartJourneySettled
  \/ EndJourneySettled
  \/ \E star \in 1..MaxStar : SetOverallRatingSettled(star)
  \/ SubmitJourneyRatingCalledSettled
  \/ \E i \in 1..MaxSegments : SubmitFeedbackResolve(i)
  \/ \E i \in 1..MaxSegments : SubmitFeedbackReject(i)
  \/ HeatmapResolve
  \/ HeatmapReject
  \/ RatingResetFires
  \/ ErrorTimeoutFires
  \/ SegmentClickSettled(1)
  \/ \E star \in 1..MaxStar : SetSelectedRatingSettled(star)
  \/ SubmitRatingCalledSettled
  \/ \E q \in SegmentRatings : SubmitRatingResolve(q)
  \/ \E q \in SegmentRatings : SubmitRatingHeatmapResolve(q)
  \/ \E q \in SegmentRatings : SubmitRatingReject(q)
  \/ FormResetFires

SpecValidation == InitHome /\ [][NextValidation]_vars

\* The messages of the three input checks.
ValidationMessages ==
  {"Please set both start and end points", "Please select a rating",
   "Please select a segment and rating"}

\* C35: a route request is sent only with both endpoints set, a rating batch
\* is started only with a rating other than 0, a segment rating is sent only
\* with a selected segment and a rating other than 0; and the step in which
\* an input is rejected sets the error message, schedules the timeout that
\* clears it, and changes nothing else.
C35_ValidationRejects ==
  [][/\ Count(routeRequests') > Count(routeRequests)
          => (start # NoLoc /\ end # NoLoc)
     /\ Count(ratingBatches') > Count(ratingBatches) => overallRating # 0
     /\ Count(segmentRatings') > Count(segmentRatings)
          => (selectedSegmentId # NoSegment /\ selectedRating # 0)
     /\ (errorTimers' = errorTimers + 1 /\ error' \in ValidationMessages)
          => UNCHANGED <<variant, ratedJourney,
                         mounted, currentLocation, nextIntervalId,
                         mountVars, endpointVars, route, routeInfo, loading,
                         routeRequests, monitorVars, journeySegments,
                         journeyActive, showJourneyRating, overallRating,
                         ratingLoading, ratingSuccess, ratingBatches,
                         heatmapRefreshes, ratingResets, batchesStarted,
                         batchSegments, feedbackIssued, feedbackSucceeded,
                         batchResult, answerSegments, voiceVars, segmentVars,
                         sosVars, guardianVars>>]_vars

\* C35 witness: after a rated journey was reset, handleCalculateRoute was
\* called without endpoints and rejected, with segment 1 selected and a
\* segment rating behind.
C35_Witness ==
  /\ mounted
  /\ error = "Please set both start and end points"
  /\ errorTimers = 1
  /\ start = NoLoc
  /\ batchResult = "done"
  /\ heatmapRefreshes >= 2
  /\ routeRequests = EmptyBag
  /\ ~loading
  /\ selectedSegmentId = 1

\* C36: the step that ends an active journey opens the rating card, hands
\* exactly one utterance, the closing one, to the speech engine behind the
\* pending ones, and leaves no monitor interval live; and the step that
\* starts a journey is taken with a route info and a non-empty stored
\* segment list.
C36_EndJourneyArrives ==
  [][/\ (mounted /\ journeyActive /\ ~journeyActive')
          => /\ showJourneyRating'
             /\ speechQueue' = Speak(speechQueue, "Journey complete", 0)
             /\ monitorIntervals' = {}
     /\ (~journeyActive /\ journeyActive')
          => (routeInfo # None /\ Len(journeySegments) > 0)]_vars

\* C36 witness: a journey over a route with segments was started and ended:
\* the rating card is open and both announcements are with the speech engine.
C36_Witness ==
  /\ mounted
  /\ ~journeyActive
  /\ showJourneyRating
  /\ Len(journeySegments) > 0
  /\ Len(speechQueue) = 2
  /\ speechQueue[1].text = "Starting your journey"
  /\ speechQueue[2].text = "Journey complete"
  /\ monitorIntervals = {}
  /\ batchesStarted = 0

\* C37: the step that ends a rating batch all of whose submitFeedback calls
\* succeeded shows the success message and sets no error, whether the
\* heatmap fetch after them succeeded or failed.
C37_AllSucceededShowsSuccess ==
  [][(/\ mounted
      /\ batchResult = "running"
      /\ batchResult' # "running"
      /\ Len(batchSegments) > 0
      /\ feedbackSucceeded = batchSegments)
       => /\ ratingSuccess'
          /\ error' = error
          /\ errorTimers' = errorTimers]_vars

\* ------------------------------------------------- reset after a rating
\* The user chooses endpoints and calculates routes before the journey and
\* again while the reset of the rated journey is pending; every request
\* succeeds.
PlanningTime == batchesStarted = 0 \/ ratingResets > 0
SetStartPlanning(c) == PlanningTime /\ SetStart(c)
SetEndPlanning(c) == PlanningTime /\ SetEnd(c)
CalculateRouteDuringReset == ratingResets > 0 /\ HomeCalculateRoute

NextReset ==
  \/ \E c \in Coords : SetStartPlanning(c)
  \/ \E c \in Coords : SetEndPlanning(c)
  \/ CalculateJourneyRouteOnce
  \/ CalculateRouteDuringReset
  \/ \E q \in RouteRequests : RouteAnswerShort(q)
  \/ StartJourneyOnce
  \/ HandleEndJourney
  \/ \E star \in 1..MaxStar : SetOverallRating(star)
  \/ HandleSubmitJourneyRating
  \/ \E i \in 1..MaxSegments : SubmitFeedbackResolve(i)
  \/ HeatmapResolve
  \/ RatingResetFires

SpecReset == InitHome /\ [][NextReset]_vars

\* C38: when the reset of a rated journey fires, an endpoint that is no
\* longer the one of the rated journey stays, and a route or segment list
\* that is no longer the one of the rated journey stays with its route info.
C38_ResetKeepsNewRoute ==
  [][(ratingResets' < ratingResets /\ mounted)
       => /\ start # ratedJourney.start => start' = start
          /\ end # ratedJourney.end => end' = end
          /\ (route # ratedJourney.route
                \/ journeySegments # ratedJourney.segments)
               => UNCHANGED <<route, routeInfo, journeySegments>>]_vars

RouteRequestCompletes(q) ==
  \/ \E coords \in RouteCoordsFor(q) : CalculateRouteResolve(q, coords)
  \/ CalculateRouteReject(q)
  \/ HomeRouteResolve(q)
  \/ HomeRouteReject(q)

\* Some outstanding route request completes.
SomeRouteRequestCompletes ==
  \E q \in Pending(routeRequests) : RouteRequestCompletes(q)

\* The health probe and the route requests of both builds between fixed
\* endpoints.
NextLoading ==
  \/ HealthCheckResolve
  \/ HealthCheckReject
  \/ SetStart(1)
  \/ SetEnd(MaxCoord)
  \/ HandleCalculateRoute
  \/ \E q \in RouteRequests : \E coords \in RouteCoordsFor(q) :
       CalculateRouteResolve(q, coords)
  \/ \E q \in RouteRequests : CalculateRouteReject(q)
  \/ CalculateRouteUntilSegments
  \/ \E q \in RouteRequests : HomeRouteResolve(q)
  \/ \E q \in RouteRequests : HomeRouteReject(q)
  \/ Unmount

\* The same when every network call eventually completes: an outstanding
\* route request is not left unanswered for ever.  The button sends a request
\* only while none is outstanding, so fairness of the completion of some
\* request is fairness for each of them.
SpecLoading ==
  /\ InitHome \/ InitLegacy
  /\ [][NextLoading]_vars
  /\ WF_vars(SomeRouteRequestCompletes)

\* C40: every route request eventually returns the loading flag to false:
\* while the page is mounted, loading = true leads to loading = false, and
\* the step in which a request completes, successfully or not, sets it to
\* false; and while loading is true no further route request is sent.
C40_LoadingReturnsToFalse ==
  /\ (mounted /\ loading) ~> (~loading \/ ~mounted)
  /\ [][(Count(routeRequests') < Count(routeRequests) /\ mounted)
          => ~loading']_vars
  /\ [][loading => Count(routeRequests') <= Count(routeRequests)]_vars

\* C40 witness: a route request has failed and the button is enabled again.
C40_Witness ==
  /\ mounted
  /\ ~loading
  /\ error = "Failed to calculate route"
  /\ routeRequests = EmptyBag
  /\ CalculateRouteEnabled

====
